---- MODULE Spec2Model ----
(***************************************************************************)
(* Model of scripts/validate_semantic_ids.py: the slug generator, the type *)
(* code table, the prefix extraction, the ID composer and the corpus       *)
(* analyzer of main(); and of lib/nats_client.py: NatsClient, its          *)
(* callbacks, and emit_event, get_nats_client and close_nats_client.       *)
(*                                                                         *)
(* A Python str is a sequence of one-character strings.  An ASCII          *)
(* character is written as itself, a non-ASCII character by its code point *)
(* ("U+212A" is KELVIN SIGN).                                              *)
(***************************************************************************)
EXTENDS Integers, Sequences, FiniteSets, TLC

\* ------------------------------------------------------------------------
\* Characters
\* ------------------------------------------------------------------------

Letters ==
  {"a", "b", "c", "d", "e", "f", "g", "h", "i", "j", "k", "l", "m",
   "n", "o", "p", "q", "r", "s", "t", "u", "v", "w", "x", "y", "z"}

Digits == {"0", "1", "2", "3", "4", "5", "6", "7", "8", "9"}

\* Characters outside ASCII for which str.isdigit() is true
\* (U+0662 ARABIC-INDIC DIGIT TWO).
UnicodeDigits == {"U+0662"}

\* str.lower() of one character; the result can be longer than the input
\* (U+0130 lowers to "i" followed by U+0307) and can be ASCII for a
\* non-ASCII input (U+212A KELVIN SIGN lowers to "k").
LowerTable ==
  ("A" :> <<"a">>) @@ ("B" :> <<"b">>) @@ ("C" :> <<"c">>) @@ ("D" :> <<"d">>) @@
  ("E" :> <<"e">>) @@ ("F" :> <<"f">>) @@ ("G" :> <<"g">>) @@ ("H" :> <<"h">>) @@
  ("I" :> <<"i">>) @@ ("J" :> <<"j">>) @@ ("K" :> <<"k">>) @@ ("L" :> <<"l">>) @@
  ("M" :> <<"m">>) @@ ("N" :> <<"n">>) @@ ("O" :> <<"o">>) @@ ("P" :> <<"p">>) @@
  ("Q" :> <<"q">>) @@ ("R" :> <<"r">>) @@ ("S" :> <<"s">>) @@ ("T" :> <<"t">>) @@
  ("U" :> <<"u">>) @@ ("V" :> <<"v">>) @@ ("W" :> <<"w">>) @@ ("X" :> <<"x">>) @@
  ("Y" :> <<"y">>) @@ ("Z" :> <<"z">>) @@
  ("U+00C9" :> <<"U+00E9">>) @@
  ("U+212A" :> <<"k">>) @@
  ("U+0130" :> <<"i", "U+0307">>)

CharLower(c) == IF c \in DOMAIN LowerTable THEN LowerTable[c] ELSE <<c>>

\* The loop "for i in lo..hi: acc = Step(acc, i)".  It is evaluated in two
\* halves, the first one before the second one starts, which keeps the depth
\* of the evaluation logarithmic in the length of the loop.
RECURSIVE FoldRange(_, _, _, _)
FoldRange(Step(_, _), acc, lo, hi) ==
  IF lo > hi THEN acc
  ELSE IF lo = hi THEN Step(acc, lo)
  ELSE LET mid == (lo + hi) \div 2
           left == FoldRange(Step, acc, lo, mid)
       IN  IF left = left THEN FoldRange(Step, left, mid + 1, hi) ELSE left

\* title.lower()
StrLower(s) ==
  FoldRange(LAMBDA out, i : out \o CharLower(s[i]), <<>>, 1, Len(s))

\* c.isdigit()
IsDigit(c) == c \in Digits \cup UnicodeDigits

\* The character class [^a-z0-9]
NonAlnum(c) == c \notin Letters \cup Digits

\* The character class _
IsUnderscore(c) == c = "_"

\* ------------------------------------------------------------------------
\* str and re helpers
\* ------------------------------------------------------------------------

\* re.sub(r"<class>+", rep, s): every maximal run of characters of the
\* class becomes one rep.
ReSubRuns(Match(_), rep, s) ==
  FoldRange(LAMBDA out, i :
              IF ~Match(s[i]) THEN Append(out, s[i])
              ELSE IF i > 1 /\ Match(s[i - 1]) THEN out
              ELSE Append(out, rep),
            <<>>, 1, Len(s))

\* s.lstrip(c)
LStrip(s, c) ==
  LET lead == {i \in 1..Len(s) : \A j \in 1..i : s[j] = c}
  IN  SubSeq(s, Cardinality(lead) + 1, Len(s))

\* s.rstrip(c)
RStrip(s, c) ==
  LET trail == {i \in 1..Len(s) : \A j \in i..Len(s) : s[j] = c}
  IN  SubSeq(s, 1, Len(s) - Cardinality(trail))

\* s.strip(c)
Strip(s, c) == RStrip(LStrip(s, c), c)

\* s.rfind(c): the highest 0-based index of c in s, -1 when there is none.
RFind(s, c) ==
  LET at == {i \in 1..Len(s) : s[i] = c}
  IN  IF at = {} THEN -1
      ELSE (CHOOSE i \in at : \A j \in at : j <= i) - 1

\* s[:n] for n >= 0
Take(s, n) == SubSeq(s, 1, IF n < Len(s) THEN n ELSE Len(s))

\* c * n
Repeat(c, n) == [i \in 1..n |-> c]

\* ------------------------------------------------------------------------
\* generate_semantic_slug
\* ------------------------------------------------------------------------

Untitled == <<"u", "n", "t", "i", "t", "l", "e", "d">>

\* Longest slug before the suffix, the lowest index of a word boundary that
\* is cut at, and the shortest slug.
MaxSlugLen == 40
MinBoundary == 25
MinSlugLen == 3

\* Lines 44-54: lowercase, replace runs outside [a-z0-9] by "_", collapse
\* runs of "_", trim "_".
Normalise(title) ==
  LET lowered == StrLower(title)
      replaced == ReSubRuns(NonAlnum, "_", lowered)
      collapsed == ReSubRuns(IsUnderscore, "_", replaced)
  IN  Strip(collapsed, "_")

\* Faulty variant of DigitPrefix: the "n" is never put in front.
DigitPrefixSkipped(slug) == slug

\* Lines 56-58: prefix with n if the slug starts with a digit.
DigitPrefix(slug) ==
  IF slug # <<>> /\ IsDigit(slug[1]) THEN <<"n">> \o slug ELSE slug

\* Faulty variant of Truncate: slug[:41] for slug[:40].
TruncateOffByOne(slug) ==
  IF Len(slug) > MaxSlugLen
  THEN LET truncated == Take(slug, MaxSlugLen + 1)
           last_underscore == RFind(truncated, "_")
           cut == IF last_underscore > MinBoundary
                  THEN Take(truncated, last_underscore)
                  ELSE truncated
       IN  RStrip(cut, "_")
  ELSE slug

\* Faulty variant of Truncate: the word boundary is never looked for.
TruncateHardCut(slug) ==
  IF Len(slug) > MaxSlugLen
  THEN RStrip(Take(slug, MaxSlugLen), "_")
  ELSE slug

\* Faulty variant of Truncate: any word boundary is cut at (> 0 for > 25).
TruncateAnyBoundary(slug) ==
  IF Len(slug) > MaxSlugLen
  THEN LET truncated == Take(slug, MaxSlugLen)
           last_underscore == RFind(truncated, "_")
           cut == IF last_underscore > 0
                  THEN Take(truncated, last_underscore)
                  ELSE truncated
       IN  RStrip(cut, "_")
  ELSE slug

\* Faulty variant of Truncate: the cut keeps the underscore it is made at.
TruncateKeepsBoundary(slug) ==
  IF Len(slug) > MaxSlugLen
  THEN LET truncated == Take(slug, MaxSlugLen)
           last_underscore == RFind(truncated, "_")
       IN  IF last_underscore > MinBoundary
           THEN Take(truncated, last_underscore + 1)
           ELSE truncated
  ELSE slug

\* Lines 60-67: truncate to 40 characters, at a word boundary when one lies
\* beyond index 25.
Truncate(slug) ==
  IF Len(slug) > MaxSlugLen
  THEN LET truncated == Take(slug, MaxSlugLen)
           last_underscore == RFind(truncated, "_")
           cut == IF last_underscore > MinBoundary
                  THEN Take(truncated, last_underscore)
                  ELSE truncated
       IN  RStrip(cut, "_")
  ELSE slug

\* Lines 69-71: minimum length.
Pad(slug) ==
  IF Len(slug) < MinSlugLen
  THEN IF slug # <<>>
       THEN slug \o Repeat("x", MinSlugLen - Len(slug))
       ELSE <<"x", "x", "x">>
  ELSE slug

generate_semantic_slug(title) ==
  IF title = <<>> THEN Untitled
  ELSE Pad(Truncate(DigitPrefix(Normalise(title))))

\* ------------------------------------------------------------------------
\* Type codes, suffix, prefix, generate_semantic_id
\* ------------------------------------------------------------------------

Unknown == <<"u", "n", "k", "n", "o", "w", "n">>
Unk == <<"u", "n", "k">>
Gt == <<"g", "t">>

TYPE_CODES ==
  (<<"e", "p", "i", "c">> :> <<"e", "p", "c">>) @@
  (<<"b", "u", "g">> :> <<"b", "u", "g">>) @@
  (<<"t", "a", "s", "k">> :> <<"t", "s", "k">>) @@
  (<<"f", "e", "a", "t", "u", "r", "e">> :> <<"f", "t", "r">>) @@
  (<<"d", "e", "c", "i", "s", "i", "o", "n">> :> <<"d", "e", "c">>) @@
  (<<"c", "o", "n", "v", "o", "y">> :> <<"c", "n", "v">>) @@
  (<<"m", "o", "l", "e", "c", "u", "l", "e">> :> <<"m", "o", "l">>) @@
  (<<"w", "i", "s", "p">> :> <<"w", "s", "p">>) @@
  (<<"a", "g", "e", "n", "t">> :> <<"a", "g", "t">>) @@
  (<<"r", "o", "l", "e">> :> <<"r", "o", "l">>) @@
  (<<"m", "r">> :> <<"m", "r", "q">>) @@
  (Unknown :> Unk)

\* Faulty variant of TypeCode: the label is lowercased before the lookup.
TypeCodeCaseless(bead_type) ==
  IF StrLower(bead_type) \in DOMAIN TYPE_CODES
  THEN TYPE_CODES[StrLower(bead_type)]
  ELSE Unk

\* TYPE_CODES.get(bead_type, "unk")
TypeCode(bead_type) ==
  IF bead_type \in DOMAIN TYPE_CODES THEN TYPE_CODES[bead_type] ELSE Unk

\* string.ascii_lowercase + string.digits
SuffixChars ==
  <<"a", "b", "c", "d", "e", "f", "g", "h", "i", "j", "k", "l", "m",
    "n", "o", "p", "q", "r", "s", "t", "u", "v", "w", "x", "y", "z",
    "0", "1", "2", "3", "4", "5", "6", "7", "8", "9">>

SuffixLen == 4

\* generate_random_suffix(): four characters, each random.choice(chars).
\* picks[k] is the index random.choice selects for the k-th character.
generate_random_suffix(picks) == [k \in 1..SuffixLen |-> SuffixChars[picks[k]]]

\* d.get(key, default)
Get(d, key, default) == IF key \in DOMAIN d THEN d[key] ELSE default

\* s.find(sub) >= 0, i.e. sub in s
Contains(s, sub) ==
  \E i \in 0..(Len(s) - Len(sub)) : SubSeq(s, i + 1, i + Len(sub)) = sub

\* extract_prefix: bead_id.split("-")[0] when bead_id has a "-", else "gt".
extract_prefix(bead_id) ==
  IF \E i \in 1..Len(bead_id) : bead_id[i] = "-"
  THEN LET first == CHOOSE i \in 1..Len(bead_id) :
                      /\ bead_id[i] = "-"
                      /\ \A j \in 1..(i - 1) : bead_id[j] # "-"
       IN  SubSeq(bead_id, 1, first - 1)
  ELSE Gt

\* Faulty variant of FormatId: "_" between slug and suffix.
FormatIdSeparated(prefix, type_code, sl, suffix) ==
  prefix \o <<"-">> \o type_code \o <<"-">> \o sl \o <<"_">> \o suffix

\* f"{prefix}-{type_code}-{slug}{suffix}", the same at lines 80 and 104.
FormatId(prefix, type_code, sl, suffix) ==
  prefix \o <<"-">> \o type_code \o <<"-">> \o sl \o suffix

\* generate_semantic_id, with the suffix that generate_random_suffix drew.
generate_semantic_id(prefix, bead_type, t, suffix) ==
  LET type_code == TypeCode(bead_type)
      sl == generate_semantic_slug(t)
  IN  FormatId(prefix, type_code, sl, suffix)

\* ------------------------------------------------------------------------
\* collections.Counter and arithmetic
\* ------------------------------------------------------------------------

\* Faulty variant of CounterAdd: an element seen before is not counted again.
CounterAddOnce(counts, x) ==
  IF \E j \in 1..Len(counts) : counts[j].key = x
  THEN counts
  ELSE Append(counts, [key |-> x, count |-> 1])

\* counts[x] += 1 on a Counter: the items in first-seen order.
CounterAdd(counts, x) ==
  LET at == {j \in 1..Len(counts) : counts[j].key = x}
  IN  IF at = {}
      THEN Append(counts, [key |-> x, count |-> 1])
      ELSE LET j == CHOOSE j \in at : TRUE
           IN  SubSeq(counts, 1, j - 1)
                 \o <<[key |-> x, count |-> counts[j].count + 1]>>
                 \o SubSeq(counts, j + 1, Len(counts))

\* Counter(list): the distinct elements in first-seen order, each with its
\* number of occurrences.
Counter(list) ==
  FoldRange(LAMBDA counts, i : CounterAdd(counts, list[i]),
            <<>>, 1, Len(list))

\* sum(ns)
Sum(ns) == FoldRange(LAMBDA acc, i : acc + ns[i], 0, 1, Len(ns))

\* [f(x) for x in list]
Map(F(_), list) == [i \in 1..Len(list) |-> F(list[i])]

\* Faulty variant of SumOfRepeated: the repeated keys are counted, not their
\* occurrences.
SumOfRepeatedKeys(counts) ==
  Cardinality({i \in 1..Len(counts) : counts[i].count > 1})

\* sum(c for s, c in counts.items() if c > 1)
SumOfRepeated(counts) ==
  Sum([i \in 1..Len(counts) |->
         IF counts[i].count > 1 THEN counts[i].count ELSE 0])

\* sum(1 for s, c in counts.items() if c > 1)
NumRepeated(counts) ==
  Cardinality({i \in 1..Len(counts) : counts[i].count > 1})

\* sorted(items, key=count, reverse=True): stable, so equal counts keep
\* their first-seen order.
SortByCountDesc(items) ==
  FoldRange(LAMBDA out, i :
              LET k == Cardinality({j \in 1..Len(out) :
                                      out[j].count >= items[i].count})
              IN  SubSeq(out, 1, k) \o <<items[i]>>
                    \o SubSeq(out, k + 1, Len(out)),
            <<>>, 1, Len(items))

TopN == 15

\* Faulty variant of most_common: the first n keys seen, whatever their
\* counts.
FirstKeys(counts, n) == Take(counts, n)

\* counts.most_common(n)
most_common(counts, n) == Take(SortByCountDesc(counts), n)

\* A Python float that is the quotient of two integers, kept exact.
Rat(n, d) == [num |-> n, den |-> d]
Zero == Rat(0, 1)
RatLt(a, b) == a.num * b.den < b.num * a.den
RatEq(a, b) == a.num * b.den = b.num * a.den

\* ------------------------------------------------------------------------
\* main(): generation and analysis (lines 91-156)
\* ------------------------------------------------------------------------

TitleDisplayLen == 50
Ellipsis == <<".", ".", ".">>

\* Faulty variant of Appended: the full ID is appended to slug_only_list.
AppendedFullKey(original_id, t, bead_type, prefix, type_code, sl, suffix) ==
  [result |->
     [original_id |-> original_id,
      title |-> IF Len(t) > TitleDisplayLen
                THEN Take(t, TitleDisplayLen) \o Ellipsis
                ELSE t,
      type |-> bead_type,
      type_code |-> type_code,
      slug |-> sl,
      suffix |-> suffix,
      semantic_id |-> FormatId(prefix, type_code, sl, suffix),
      slug_length |-> Len(sl),
      total_length |-> Len(FormatId(prefix, type_code, sl, suffix))],
   slug_only |-> FormatId(prefix, type_code, sl, suffix)]

\* Lines 104-117: what the loop appends to results and to slug_only_list
\* for the values that lines 96-103 computed.
Appended(original_id, t, bead_type, prefix, type_code, sl, suffix) ==
  [result |->
     [original_id |-> original_id,
      title |-> IF Len(t) > TitleDisplayLen
                THEN Take(t, TitleDisplayLen) \o Ellipsis
                ELSE t,
      type |-> bead_type,
      type_code |-> type_code,
      slug |-> sl,
      suffix |-> suffix,
      semantic_id |-> FormatId(prefix, type_code, sl, suffix),
      slug_length |-> Len(sl),
      total_length |-> Len(FormatId(prefix, type_code, sl, suffix))],
   slug_only |-> prefix \o <<"-">> \o type_code \o <<"-">> \o sl]

\* The body of the loop over data (lines 96-117) for one issue and the
\* suffix drawn for it.
ProcessIssue(issue, suffix) ==
  LET t == Get(issue, "title", <<>>)
      original_id == Get(issue, "id", <<>>)
      bead_type == Get(issue, "issue_type", Get(issue, "type", Unknown))
  IN  Appended(original_id, t, bead_type, extract_prefix(original_id),
               TypeCode(bead_type), generate_semantic_slug(t), suffix)

\* Line 153: keywords of ephemeral (patrol / molecule) beads.
EphemeralKeywords ==
  {<<"p", "a", "t", "r", "o", "l">>, <<"d", "i", "g", "e", "s", "t">>,
   <<"w", "i", "s", "p">>, <<"m", "o", "l", "-">>,
   <<"m", "o", "l", "e", "c", "u", "l", "e">>}

\* any(kw in s for kw in kws)
AnyIn(kws, s) == \E kw \in kws : Contains(s, kw)

\* Faulty variant of CountIn: the upper end of the band is not tested.
CountAtLeast(lengths, lo, hi) ==
  Cardinality({i \in 1..Len(lengths) : lo <= lengths[i]})

\* sum(1 for l in lengths if lo <= l <= hi)
CountIn(lengths, lo, hi) ==
  Cardinality({i \in 1..Len(lengths) : lo <= lengths[i] /\ lengths[i] <= hi})

\* Lines 149-156: the occurrences of the repeated keys that name an
\* ephemeral bead (wanted) or do not (not wanted).
CollisionsOf(slug_counts, wanted) ==
  Sum([i \in 1..Len(slug_counts) |->
         IF /\ slug_counts[i].count > 1
            /\ AnyIn(EphemeralKeywords, slug_counts[i].key) = wanted
         THEN slug_counts[i].count
         ELSE 0])

\* Lines 135-140
LenDist(slug_lengths) ==
  <<[band |-> "1-10", count |-> CountIn(slug_lengths, 1, 10)],
    [band |-> "11-20", count |-> CountIn(slug_lengths, 11, 20)],
    [band |-> "21-30", count |-> CountIn(slug_lengths, 21, 30)],
    [band |-> "31-40", count |-> CountIn(slug_lengths, 31, 40)]>>

\* Lines 124-156 for the two counters of lines 123 and 128.
Statistics(results, slug_only_list, slug_counts, full_id_counts) ==
  [results |-> results,
   slug_only_list |-> slug_only_list,
   total |-> Len(results),
   slug_counts |-> slug_counts,
   collisions |-> NumRepeated(slug_counts),
   collision_instances |-> SumOfRepeated(slug_counts),
   full_id_counts |-> full_id_counts,
   full_collisions |-> SumOfRepeated(full_id_counts),
   slug_lengths |-> [i \in 1..Len(results) |-> results[i].slug_length],
   total_lengths |-> [i \in 1..Len(results) |-> results[i].total_length],
   len_dist |-> LenDist([i \in 1..Len(results) |-> results[i].slug_length]),
   type_counts |-> Counter([i \in 1..Len(results) |-> results[i].type_code]),
   top_collisions |-> most_common(slug_counts, TopN),
   patrol_collisions |-> CollisionsOf(slug_counts, TRUE),
   work_collisions |-> CollisionsOf(slug_counts, FALSE)]

\* Faulty variant of Aggregate: full_id_counts counts the keys without the
\* suffix.
AggregateKeysTwice(results, slug_only_list) ==
  Statistics(results, slug_only_list, Counter(slug_only_list),
             Counter(slug_only_list))

\* Lines 120-156 for the two lists the loop has filled.
Aggregate(results, slug_only_list) ==
  Statistics(results, slug_only_list, Counter(slug_only_list),
             Counter([i \in 1..Len(results) |-> results[i].semantic_id]))

\* Lines 92-117: the loop over data with the suffixes drawn in it.
Loop(d, suffixes) ==
  FoldRange(LAMBDA out, i : Append(out, ProcessIssue(d[i], suffixes[i])),
            <<>>, 1, Len(d))

\* The two lists of the loop.
Unzip(processed) ==
  Aggregate([i \in 1..Len(processed) |-> processed[i].result],
            [i \in 1..Len(processed) |-> processed[i].slug_only])

\* Lines 91-156: everything main() computes before it prints.
Analysis(d, suffixes) == Unzip(Loop(d, suffixes))

\* ------------------------------------------------------------------------
\* main(): the report (lines 158-271)
\* ------------------------------------------------------------------------

WorkTypes == {<<"b", "u", "g">>, <<"t", "s", "k">>, <<"e", "p", "c">>,
              <<"f", "t", "r">>}

PatrolKeywords ==
  {<<"p", "a", "t", "r", "o", "l">>, <<"d", "i", "g", "e", "s", "t">>,
   <<"w", "i", "s", "p">>}
MoleculeKeywords ==
  {<<"m", "o", "l", "-">>, <<"m", "o", "l", "e", "c", "u", "l", "e">>}
SampleSkipKeywords ==
  {<<"p", "a", "t", "r", "o", "l">>, <<"d", "i", "g", "e", "s", "t">>,
   <<"m", "o", "l", "_">>}

MaxSamples == 20
SampleDisplayLen == 40
KeyDisplayLen == 47
KeyDisplayCut == 45
MaxWorkRate == 5
MinAvgLen == 15
MaxAvgLen == 35

\* Lines 199-204: the category of a colliding key.
Category(slug_key) ==
  IF AnyIn(PatrolKeywords, slug_key) THEN "Patrol"
  ELSE IF AnyIn(MoleculeKeywords, slug_key) THEN "Molecule"
  ELSE "Work"

\* Lines 195-206: the rows of the top-colliding table; the loop stops at
\* the first key that occurs once.
TopRows(top_collisions) ==
  LET n == Cardinality({i \in 1..Len(top_collisions) :
                          \A j \in 1..i : top_collisions[j].count # 1})
  IN  [i \in 1..n |->
         [key |-> top_collisions[i].key,
          display |-> IF Len(top_collisions[i].key) > KeyDisplayLen
                      THEN Take(top_collisions[i].key, KeyDisplayCut)
                             \o <<".", ".">>
                      ELSE top_collisions[i].key,
          count |-> top_collisions[i].count,
          category |-> Category(top_collisions[i].key)]]

\* Faulty variant of PickSamples: the first records, whatever their slugs.
PickFirst(results) == Take(results, MaxSamples)

\* Lines 225-233: the loop that picks the sample rows.
PickSamples(results) ==
  LET Step(b, i) ==
        LET r == results[i]
            take == /\ \/ r.type_code \notin b.seen_types
                       \/ Len(b.samples) < MaxSamples
                    /\ ~AnyIn(SampleSkipKeywords, r.slug)
            samples == IF take THEN Append(b.samples, r) ELSE b.samples
        IN  IF b.stop THEN b
            ELSE [samples |-> samples,
                  seen_types |-> IF take
                                 THEN b.seen_types \cup {r.type_code}
                                 ELSE b.seen_types,
                  stop |-> Len(samples) >= MaxSamples]
  IN  FoldRange(Step, [samples |-> <<>>, seen_types |-> {}, stop |-> FALSE],
                1, Len(results)).samples

\* Lines 212-215: the sub-report for total work beads with the counter of
\* their keys.
WorkStats(total, work_slug_counts) ==
  [total |-> total,
   work_slug_counts |-> work_slug_counts,
   work_collision_count |-> SumOfRepeated(work_slug_counts),
   work_collision_rate |->
     Rat(100 * SumOfRepeated(work_slug_counts), total)]

\* Lines 211-219 for the work beads: empty when there is none, else the
\* one sub-report.
WorkSubReport(work_beads) ==
  IF work_beads # <<>>
  THEN <<WorkStats(Len(work_beads),
                   Counter([i \in 1..Len(work_beads) |->
                              extract_prefix(work_beads[i].original_id)
                                \o <<"-">> \o work_beads[i].type_code
                                \o <<"-">> \o work_beads[i].slug]))>>
  ELSE <<>>

\* Lines 208-219: the work-beads-only analysis.
WorkReport(results) ==
  WorkSubReport(SelectSeq(results, LAMBDA r : r.type_code \in WorkTypes))

\* Lines 177-179: the rows of the type table.
TypeRows(sorted, total) ==
  [i \in 1..Len(sorted) |->
     [type_code |-> sorted[i].key, count |-> sorted[i].count,
      pct |-> Rat(100 * sorted[i].count, total)]]

\* Lines 182-183: sum(lengths)/len(lengths) if lengths else 0
Average(lengths) ==
  IF lengths # <<>> THEN Rat(Sum(lengths), Len(lengths)) ELSE Zero

\* Line 188: the percentage of a band, and line 189: its bar.
BandPct(count, total) ==
  IF total # 0 THEN Rat(100 * count, total) ELSE Zero
Bar(pct) == pct.num \div (2 * pct.den)

\* Lines 187-190: the rows of the histogram.
LenRows(len_dist, total) ==
  [i \in 1..Len(len_dist) |->
     [band |-> len_dist[i].band, count |-> len_dist[i].count,
      pct |-> BandPct(len_dist[i].count, total),
      bar |-> Bar(BandPct(len_dist[i].count, total))]]

\* Lines 234-236: the rows of the sample table.
SampleRows(picked) ==
  [i \in 1..Len(picked) |->
     [original_id |-> picked[i].original_id,
      type_code |-> picked[i].type_code,
      slug |-> picked[i].slug,
      sem_id |-> IF Len(picked[i].semantic_id) > SampleDisplayLen
                 THEN Take(picked[i].semantic_id, SampleDisplayLen)
                        \o Ellipsis
                 ELSE picked[i].semantic_id,
      slug_length |-> picked[i].slug_length]]

\* Line 244: work_collision_rate if work_beads else 0
WorkRate(work) ==
  IF work # <<>> THEN work[1].work_collision_rate ELSE Zero

\* Lines 246-252
Criteria(full_collisions, work_collision_rate_val, avg_slug_len) ==
  <<[name |-> "readable", passed |-> TRUE],
    [name |-> "type_visible", passed |-> TRUE],
    [name |-> "collision_proof", passed |-> full_collisions = 0],
    [name |-> "slug_collisions_acceptable",
     passed |-> RatLt(work_collision_rate_val, Rat(MaxWorkRate, 1))],
    [name |-> "length_reasonable",
     passed |-> /\ RatLt(Rat(MinAvgLen, 1), avg_slug_len)
                /\ RatLt(avg_slug_len, Rat(MaxAvgLen, 1))]>>

\* Faulty variant of AllPassed: any() for all().
AnyPassed(criteria) == \E i \in 1..Len(criteria) : criteria[i].passed

\* Line 259: all(passed for _, passed, _ in criteria)
AllPassed(criteria) == \A i \in 1..Len(criteria) : criteria[i].passed

\* Lines 164-271 of a run that gets past line 168, for the work sub-report,
\* the average slug length and the criteria computed on the way.
Printed(a, work, avg_slug_len, criteria) ==
  [error |-> "none",
   collision_pct |-> Rat(100 * a.collision_instances, a.total),
   type_rows |-> TypeRows(SortByCountDesc(a.type_counts), a.total),
   avg_slug_len |-> avg_slug_len,
   avg_total_len |-> Average(a.total_lengths),
   len_rows |-> LenRows(a.len_dist, a.total),
   top_rows |-> TopRows(a.top_collisions),
   work |-> work,
   samples |-> SampleRows(Take(PickSamples(a.results), MaxSamples)),
   work_collision_rate_val |-> WorkRate(work),
   criteria |-> criteria,
   all_passed |-> AllPassed(criteria),
   recommendation |->
     IF AllPassed(criteria) THEN "PROCEED" ELSE "REVIEW NEEDED",
   output |->
     <<"header", "summary", "collisions", "type_distribution",
       "length_distribution", "top_collisions">>
     \o (IF work # <<>> THEN <<"work_beads">> ELSE <<>>)
     \o <<"samples", "acceptance", "recommendation", "notes">>]

\* Lines 244-271 for the work sub-report and the average slug length.
Judged(a, work, avg_slug_len) ==
  Printed(a, work, avg_slug_len,
          Criteria(a.full_collisions, WorkRate(work), avg_slug_len))

\* Lines 158-271 for the analysis a.  Line 168 divides by total.
Report(a) ==
  IF a.total = 0
  THEN [error |-> "ZeroDivisionError", output |-> <<"header", "summary">>]
  ELSE Judged(a, WorkReport(a.results), Average(a.slug_lengths))

\* ------------------------------------------------------------------------
\* Titles the slug generator is applied to
\* ------------------------------------------------------------------------

MaxShortLen == 3
MaxHead == 28
MaxMid == 16
MaxTail == 2

\* Characters of the short titles: a lowercase and an uppercase letter, a
\* digit, the underscore, a separator, and three non-ASCII characters.
TitleChars == {"a", "B", "7", "_", " ", "U+212A", "U+0130", "U+0662"}

ShortTitles == UNION {[1..n -> TitleChars] : n \in 0..MaxShortLen}

\* Long titles: three runs of one character each, joined by separators.
HeadChars == {"a", "1"}
Separators == {<<>>, <<"-">>, <<"_", " ">>}

LongTitles ==
  {Repeat(c, h) \o s1 \o Repeat("b", m) \o s2 \o Repeat("c", t) :
     c \in HeadChars, h \in 0..MaxHead, s1 \in Separators,
     m \in 0..MaxMid, s2 \in Separators \ {<<>>}, t \in 0..MaxTail}

Titles == ShortTitles \cup LongTitles

\* ------------------------------------------------------------------------
\* Corpora main() is run on, and the suffixes it draws
\* ------------------------------------------------------------------------

\* Strings of the corpora.
IdGt1 == <<"g", "t", "-", "1">>
IdGt2 == <<"g", "t", "-", "2">>
IdDash5 == <<"-", "5">>
TitleFix ==
  <<"F", "i", "x", " ", "l", "o", "g", "i", "n", " ", "b", "u", "g", " ",
    "o", "n", " ", "s", "t", "a", "r", "t", "u", "p">>
TitleFixAgain ==
  <<"f", "i", "x", " ", "l", "o", "g", "i", "n", "-", "b", "u", "g", " ",
    " ", "o", "n", " ", "S", "T", "A", "R", "T", "U", "P", "!">>
TitlePatrol ==
  <<"P", "a", "t", "r", "o", "l", " ", "d", "i", "g", "e", "s", "t">>
TitleLives == <<"9", " ", "l", "i", "v", "e", "s">>
TitleLong ==
  <<"P", "a", "t", "r", "o", "l", " ", "d", "i", "g", "e", "s", "t", ":",
    " ", "r", "e", "s", "t", "a", "r", "t", " ", "t", "h", "e", " ", "s",
    "t", "a", "l", "l", "e", "d", " ", "p", "o", "l", "e", "c", "a", "t",
    "s", " ", "o", "f", " ", "e", "v", "e", "r", "y", " ", "r", "i", "g",
    " ", "i", "n", " ", "t", "o", "w", "n">>
TypeBug == <<"b", "u", "g">>
TypeTask == <<"t", "a", "s", "k">>
TypeEpic == <<"e", "p", "i", "c">>
TypeFeature == <<"f", "e", "a", "t", "u", "r", "e">>
TypeEpicCapital == <<"E", "p", "i", "c">>
TypeMolecule == <<"m", "o", "l", "e", "c", "u", "l", "e">>
TypeWisp == <<"w", "i", "s", "p">>
GtDash == <<"g", "t", "-">>
BeadSpace == <<"b", "e", "a", "d", " ">>

MaxRecords == 3
MaxPeriod == 2
MaxPairs == 5
MaxEphemeral == 2

\* Issues of the small corpora.  An issue is a JSON object: a function from
\* the keys it has to their values.
IssuePool ==
  {[id |-> IdGt1, title |-> TitleFix, issue_type |-> TypeBug],
   [id |-> IdGt2, title |-> TitleFixAgain, type |-> TypeBug],
   [title |-> TitleLong],
   [id |-> IdDash5, issue_type |-> TypeMolecule, type |-> TypeBug]}

SmallCorpora == UNION {[1..n -> IssuePool] : n \in 0..MaxRecords}

\* str(k) for k >= 0
DigitChars == <<"0", "1", "2", "3", "4", "5", "6", "7", "8", "9">>
RECURSIVE Decimal(_)
Decimal(k) ==
  IF k < 10 THEN <<DigitChars[k + 1]>>
  ELSE Decimal(k \div 10) \o <<DigitChars[(k % 10) + 1]>>

WorkTypeNames == <<TypeBug, TypeTask, TypeEpic, TypeFeature>>

\* A corpus of n work beads "bead <k>" in which the first pairs beads repeat
\* the title and type of the next pairs beads, followed by extra wisps that
\* all have the same title.
Synthetic(n, pairs, extra) ==
  [i \in 1..(n + extra) |->
     IF i <= n
     THEN LET k == IF i <= pairs THEN i + pairs ELSE i
          IN  [id |-> GtDash \o Decimal(i),
               title |-> BeadSpace \o Decimal(k),
               issue_type |-> WorkTypeNames[(k % 4) + 1]]
     ELSE [id |-> GtDash \o Decimal(i), title |-> TitlePatrol, issue_type |-> TypeWisp]]

SyntheticSizes == {100}

SyntheticCorpora ==
  {Synthetic(n, pairs, extra) :
     n \in SyntheticSizes, pairs \in {0, MaxPairs}, extra \in {0, MaxEphemeral}}

\* Corpora for the top-colliding table: two more repeated keys than the
\* table has rows, all of count 2, followed by a key of a larger count.
TableCorpora ==
  {Synthetic(2 * (TopN + 2), TopN + 2, extra) :
     extra \in {0, MaxEphemeral + 1}}

\* A corpus for the sample table: patrol wisps first, then one work bead
\* more than the table has rows.
SampleCorpora ==
  {Synthetic(0, 0, MaxEphemeral) \o Synthetic(MaxSamples + 1, 0, 0)}

\* The indexes random.choice returns for the four characters of the v-th
\* suffix of a stream.
Picks(v) == [k \in 1..SuffixLen |-> ((v * k) % Len(SuffixChars)) + 1]

\* The suffixes drawn for n records: a stream that repeats with period p.
SuffixStream(p, n) == [i \in 1..n |-> generate_random_suffix(Picks((i - 1) % p))]

\* ------------------------------------------------------------------------
\* JSON documents on stdin
\* ------------------------------------------------------------------------

\* A JSON value that is an object with the fields of an issue, and JSON
\* values that are no objects.
ObjectElement(issue) == [json |-> "object", fields |-> issue]
NonObjectElements == {[json |-> "number"], [json |-> "array"]}

\* The document that is the array of the issues of d.
ArrayDocument(d) ==
  [kind |-> "array", items |-> [i \in 1..Len(d) |-> ObjectElement(d[i])]]

MaxKeys == 2

\* Documents: text that is no JSON, a number, null, a string of n
\* characters, an object with n keys, and arrays of objects and other
\* values.
ScalarKinds == {"number", "null"}
ElementPool == {ObjectElement(issue) : issue \in IssuePool} \cup NonObjectElements
Documents ==
  {[kind |-> "invalid"]}
    \cup {[kind |-> k] : k \in ScalarKinds}
    \cup {[kind |-> "string", size |-> n] : n \in 0..MaxKeys}
    \cup {[kind |-> "object", size |-> n] : n \in 0..MaxKeys}
    \cup {[kind |-> "array", items |-> items] :
            items \in UNION {[1..n -> ElementPool] : n \in 0..MaxRecords}}

\* Line 95: what "for issue in data" binds issue to, in order: the elements
\* of an array, the keys of an object, the characters of a string.
Elements(doc) ==
  IF doc.kind = "array" THEN doc.items
  ELSE [i \in 1..doc.size |-> [json |-> "string"]]

\* A run that ends in an exception before it prints.
Raised(exception) == [error |-> exception, output |-> <<>>]

\* Lines 89-96 for the document doc: the exception that json.load, the for
\* statement or issue.get raises, "none" when all elements are objects.
LoadError(doc) ==
  IF doc.kind = "invalid" THEN "JSONDecodeError"
  ELSE IF doc.kind \in ScalarKinds THEN "TypeError"
  ELSE IF \E i \in 1..Len(Elements(doc)) : Elements(doc)[i].json # "object"
  THEN "AttributeError"
  ELSE "none"

\* The issues the loop goes through when LoadError is "none".
Loaded(doc) == [i \in 1..Len(Elements(doc)) |-> Elements(doc)[i].fields]

\* ------------------------------------------------------------------------
\* State
\* ------------------------------------------------------------------------

VARIABLES
  name,       \* __name__: "__main__" when the file runs as a script
  stdin,      \* the JSON document on sys.stdin
  title,      \* the argument of generate_semantic_slug
  slug,       \* its return value
  slug_pc,    \* "call" before the call, "return" after it, "idle" if unused
  data,       \* the corpus json.load(sys.stdin) returns to main()
  runs,       \* the most recent run of main(), if any: analysis and report
  rerun,      \* whether main() has run more than once on data
  composed,   \* the most recent call of generate_semantic_id, if any
  emit_events,     \* os.environ.get("GT_EMIT_EVENTS"), NoValue when unset
  nats_available,  \* NATS_AVAILABLE
  singleton,       \* _nats_client: 0 for None, else the index of a client
  clients,         \* the NatsClient objects constructed so far
  conns,           \* the underlying NATS() objects constructed so far
  callbacks,       \* callbacks the NATS library has scheduled, in order
  tasks,           \* the asyncio tasks that call the module: their frames
  watcher_pc,      \* the watcher process: "unused", "down" (stopped),
                   \* "crashed" (died inside on_message), or its place in
                   \* on_message ("idle" outside it)
  processed_ids,   \* DiscordBot.processed_ids
  state_file,      \* the file at STATE_FILE
  message,         \* the argument of the latest on_message
  mails,           \* the calls of send_mail so far
  printed,         \* the last line the watcher printed
  run,             \* how many times main() has started the watcher
  events,          \* how many times on_message has been called
  saves            \* the worst that has happened in save_state so far:
                   \* "written", "capped" (ids were dropped), "failed"

scriptVars == <<name, stdin, title, slug, slug_pc, data, runs, rerun, composed>>
natsVars ==
  <<emit_events, nats_available, singleton, clients, conns, callbacks, tasks>>
watcherVars ==
  <<watcher_pc, processed_ids, state_file, message, mails, printed, run,
    events, saves>>
vars == <<scriptVars, natsVars, watcherVars>>

\* watcher.py is not running.
NoMessage == [id |-> <<>>, from_self |-> FALSE, is_dm |-> FALSE,
              is_mention |-> FALSE]
WatcherUnused ==
  /\ watcher_pc = "unused"
  /\ processed_ids = {}
  /\ state_file = [status |-> "missing", processed_ids |-> {}]
  /\ message = NoMessage
  /\ mails = <<>>
  /\ printed = ""
  /\ run = 0
  /\ events = 0
  /\ saves = "written"

\* nats_client is not imported.
NatsUnused ==
  /\ emit_events = <<>>
  /\ nats_available = FALSE
  /\ singleton = 0
  /\ clients = <<>>
  /\ conns = <<>>
  /\ callbacks = <<>>
  /\ tasks = <<>>

Script == "__main__"
Imported == "validate_semantic_ids"

NoSlugCall ==
  /\ title = <<>>
  /\ slug = <<>>
  /\ slug_pc = "idle"

\* The module imported and generate_semantic_slug about to be called.
SlugInit ==
  /\ NatsUnused
  /\ WatcherUnused
  /\ name = Imported
  /\ stdin = ArrayDocument(<<>>)
  /\ title \in Titles
  /\ slug = <<>>
  /\ slug_pc = "call"
  /\ data = <<>>
  /\ runs = <<>>
  /\ rerun = FALSE
  /\ composed = <<>>

\* The file run as a script on a corpus, or imported.
Init ==
  /\ NatsUnused
  /\ WatcherUnused
  /\ NoSlugCall
  /\ \/ name = Script /\ data \in SmallCorpora \cup SyntheticCorpora
                                   \cup TableCorpora \cup SampleCorpora
     \/ name = Imported /\ data = <<>>
  /\ stdin = ArrayDocument(data)
  /\ runs = <<>>
  /\ rerun = FALSE
  /\ composed = <<>>

GenerateSemanticSlug ==
  /\ slug_pc = "call"
  /\ slug' = generate_semantic_slug(title)
  /\ slug_pc' = "return"
  /\ UNCHANGED <<name, stdin, title, data, runs, rerun, composed>>
  /\ UNCHANGED <<natsVars, watcherVars>>

\* Lines 273-274: one run of main() on data; the suffixes it draws form a
\* stream of some period.
Main ==
  /\ name = Script
  /\ \E p \in 1..MaxPeriod :
       \E a \in {Analysis(data, SuffixStream(p, Len(data)))} :
         runs' = <<[analysis |-> a, report |-> Report(a)]>>
  /\ rerun' = (runs # <<>>)
  /\ UNCHANGED <<name, stdin, title, slug, slug_pc, data, composed>>
  /\ UNCHANGED <<natsVars, watcherVars>>

\* The file about to run as a script on a document.
StdinInit ==
  /\ NatsUnused
  /\ WatcherUnused
  /\ NoSlugCall
  /\ name = Script
  /\ stdin \in Documents
  /\ data = <<>>
  /\ runs = <<>>
  /\ rerun = FALSE
  /\ composed = <<>>

\* Lines 273-274: one run of main() from json.load on.  data is the list of
\* issues the loop has gone through when the loop ends.
MainFromStdin ==
  /\ name = Script
  /\ IF LoadError(stdin) # "none"
     THEN /\ runs' = <<[report |-> Raised(LoadError(stdin))]>>
          /\ data' = data
     ELSE /\ data' = Loaded(stdin)
          /\ \E p \in 1..MaxPeriod :
               \E a \in {Analysis(Loaded(stdin),
                                   SuffixStream(p, Len(Loaded(stdin))))} :
                 runs' = <<[analysis |-> a, report |-> Report(a)]>>
  /\ rerun' = (runs # <<>>)
  /\ UNCHANGED <<name, stdin, title, slug, slug_pc, composed>>
  /\ UNCHANGED <<natsVars, watcherVars>>

\* Arguments generate_semantic_id is called with by an importer.
CallPrefixes == {Gt, <<>>}
CallTypes == DOMAIN TYPE_CODES \cup {TypeEpicCapital}
CallTitles == {TitleFix, TitleLives, TitleLong, <<>>}

\* One call of generate_semantic_id by an importer of the module.
GenerateSemanticId ==
  /\ name = Imported
  /\ \E prefix \in CallPrefixes, bead_type \in CallTypes, t \in CallTitles,
        v \in 0..(MaxPeriod - 1) :
       LET suffix == generate_random_suffix(Picks(v))
       IN  composed' = <<[prefix |-> prefix, bead_type |-> bead_type,
                          title |-> t, suffix |-> suffix,
                          id |-> generate_semantic_id(prefix, bead_type,
                                                      t, suffix)]>>
  /\ UNCHANGED <<name, stdin, title, slug, slug_pc, data, runs, rerun>>
  /\ UNCHANGED <<natsVars, watcherVars>>

SlugNext == GenerateSemanticSlug
Next == Main \/ GenerateSemanticId

StdinNext == MainFromStdin

SpecSlug == SlugInit /\ [][SlugNext]_vars
SpecStdin == StdinInit /\ [][StdinNext]_vars
Spec == Init /\ [][Next]_vars

\* ------------------------------------------------------------------------
\* Properties of generate_semantic_slug (checked under SpecSlug)
\* ------------------------------------------------------------------------

Returned == slug_pc = "return"

\* The title after lines 44-54, as the claims name it ("normalised form").
Normalised == Normalise(title)

\* The normalised form with "n" in front when it starts with a digit.
Prefixed ==
  IF Normalised # <<>> /\ Normalised[1] \in Digits
  THEN <<"n">> \o Normalised
  ELSE Normalised

\* Index of the last underscore among the first 40 characters of s.
LastBoundary(s) == RFind(Take(s, MaxSlugLen), "_")

\* C1: every returned slug consists of characters of [a-z0-9_], has no two
\* consecutive underscores, neither starts nor ends with an underscore, has
\* between 3 and 40 characters and does not start with a digit.
C1_SlugWellFormed ==
  Returned =>
    /\ \A i \in 1..Len(slug) : slug[i] \in Letters \cup Digits \cup {"_"}
    /\ \A i \in 1..(Len(slug) - 1) : ~(slug[i] = "_" /\ slug[i + 1] = "_")
    /\ Len(slug) >= 3
    /\ Len(slug) <= 40
    /\ slug[1] # "_"
    /\ slug[Len(slug)] # "_"
    /\ slug[1] \notin Digits

\* A long title that starts with a digit and ends in separators has been
\* turned into a slug of the full 40 characters.
C1_Witness ==
  /\ Returned
  /\ Len(title) > 40
  /\ title[1] \in Digits
  /\ title[Len(title)] \notin Letters \cup Digits
  /\ Len(slug) = 40

\* C2: a title whose normalised form is empty gives the slug "untitled".
C2_EmptyNormalisedIsUntitled ==
  (Returned /\ Normalised = <<>>) => slug = Untitled

\* C8 as stated: a normalised form of at most 39 characters that starts with
\* a digit gives "n" followed by the normalised form.
C8_DigitPrefixExact ==
  (Returned /\ Normalised # <<>> /\ Normalised[1] \in Digits
            /\ Len(Normalised) <= 39)
    => slug = <<"n">> \o Normalised

\* C8 amended: ... gives "n" followed by the normalised form, padded with
\* "x" to 3 characters when the normalised form is a single digit.
C8_DigitPrefixPadded ==
  (Returned /\ Normalised # <<>> /\ Normalised[1] \in Digits
            /\ Len(Normalised) <= 39)
    => slug = IF Len(Normalised) = 1
              THEN <<"n", Normalised[1], "x">>
              ELSE <<"n">> \o Normalised

\* A title starting with a digit whose normalised form has exactly 39
\* characters has been turned into a slug.
C8_Witness ==
  /\ Returned
  /\ Len(Normalised) = 39
  /\ Normalised[1] \in Digits
  /\ Len(slug) = 40

\* C9 as stated: when the normalised form has more than 40 characters and
\* the last underscore among its first 40 is at index i > 25, the slug is
\* the first i characters of the normalised form.
C9_BoundaryCutOfNormalised ==
  (Returned /\ Len(Normalised) > 40 /\ LastBoundary(Normalised) > 25)
    => slug = Take(Normalised, LastBoundary(Normalised))

\* C9 amended: the same with the normalised form taken after "n" has been
\* put in front of a leading digit.
C9_BoundaryCutOfPrefixed ==
  (Returned /\ Len(Prefixed) > 40 /\ LastBoundary(Prefixed) > 25)
    => slug = Take(Prefixed, LastBoundary(Prefixed))

\* A digit-led title has been cut at a word boundary at index 26, the
\* lowest index that is cut at.
C9_Witness ==
  /\ Returned
  /\ Len(Prefixed) > 40
  /\ LastBoundary(Prefixed) = 26
  /\ Prefixed[1] = "n"
  /\ Len(slug) = 26

\* C10 as stated: when the normalised form has more than 40 characters and
\* no underscore at an index above 25 among its first 40, the slug is its
\* first 40 characters.
C10_HardCutOfNormalised ==
  (Returned /\ Len(Normalised) > 40 /\ LastBoundary(Normalised) <= 25)
    => slug = Take(Normalised, 40)

\* C10 amended: the same with the normalised form taken after "n" has been
\* put in front of a leading digit.
C10_HardCutOfPrefixed ==
  (Returned /\ Len(Prefixed) > 40 /\ LastBoundary(Prefixed) <= 25)
    => slug = Take(Prefixed, 40)

\* A title with an underscore at index 25 and none after it among the first
\* 40 characters has been cut hard at 40.
C10_Witness ==
  /\ Returned
  /\ Len(Prefixed) > 40
  /\ LastBoundary(Prefixed) = 25
  /\ Len(slug) = 40

\* ------------------------------------------------------------------------
\* Properties of main() and generate_semantic_id (checked under Spec)
\* ------------------------------------------------------------------------

Ran == runs # <<>>
Last == runs[1]
Completed == Ran /\ Last.report.error = "none"

\* The pre-suffix key prefix-typeCode-slug of record i of the last run.
KeyOf(i) == Last.analysis.slug_only_list[i]

\* The records of the last run that have a work type code.
WorkRecords ==
  {i \in 1..Len(data) : Last.analysis.results[i].type_code \in WorkTypes}

\* The corpus of C3: 100 records, all with a work type code, whose keys
\* take 95 distinct values, 5 of them shared by exactly two records.
HundredWorkBeadsFivePairs ==
  /\ Len(data) = 100
  /\ WorkRecords = 1..Len(data)
  /\ LET keys == {KeyOf(i) : i \in 1..Len(data)}
     IN  /\ Cardinality(keys) = 95
         /\ Cardinality({k \in keys :
              Cardinality({i \in 1..Len(data) : KeyOf(i) = k}) = 2}) = 5

C4_EmptyCorpusCompletes ==
  (Ran /\ data = <<>>)
    => /\ Last.report.error = "none"
       /\ \E k \in 1..Len(Last.report.output) :
            Last.report.output[k] = "recommendation"
       /\ RatEq(Last.report.collision_pct, Zero)
       /\ RatEq(Last.report.avg_slug_len, Zero)
       /\ RatEq(Last.report.avg_total_len, Zero)

\* C5: the per-type-code counts sum to the number of records, and each code
\* is listed once with the number of records that resolve to it.
C5_TypeCountsSumToN ==
  Ran =>
    LET tc == Last.analysis.type_counts
        results == Last.analysis.results
    IN  /\ Sum([k \in 1..Len(tc) |-> tc[k].count]) = Len(data)
        /\ \A k, l \in 1..Len(tc) : tc[k].key = tc[l].key => k = l
        /\ \A k \in 1..Len(tc) :
             tc[k].count =
               Cardinality({i \in 1..Len(data) :
                              results[i].type_code = tc[k].key})
        /\ Completed =>
             Sum([k \in 1..Len(Last.report.type_rows) |->
                    Last.report.type_rows[k].count]) = Len(data)

\* A run on three records, two of the same type code and one whose type is
\* missing, has completed.
C5_Witness ==
  /\ Completed
  /\ Len(data) = 3
  /\ \E i \in 1..3 : DOMAIN data[i] \cap {"issue_type", "type"} = {}
  /\ Len(Last.analysis.type_counts) = 2

\* What a run computes without the suffixes.
SuffixFree(r) ==
  [records |-> [i \in 1..Len(r.analysis.results) |->
                  [key |-> r.analysis.slug_only_list[i],
                   type_code |-> r.analysis.results[i].type_code,
                   slug |-> r.analysis.results[i].slug,
                   slug_length |-> r.analysis.results[i].slug_length]],
   type_counts |-> r.analysis.type_counts,
   slug_counts |-> r.analysis.slug_counts,
   collisions |-> r.analysis.collisions,
   collision_instances |-> r.analysis.collision_instances,
   patrol_collisions |-> r.analysis.patrol_collisions,
   work_collisions |-> r.analysis.work_collisions,
   len_dist |-> r.analysis.len_dist,
   top_collisions |-> r.analysis.top_collisions,
   error |-> r.report.error,
   printed |-> IF r.report.error = "none"
               THEN <<r.report.collision_pct, r.report.type_rows,
                      r.report.len_rows, r.report.top_rows, r.report.work,
                      r.report.avg_slug_len>>
               ELSE <<>>]

\* C6: a run and the next run on the same corpus, whatever suffixes the two
\* draw, agree on every result that does not include the suffix.
C6_RerunsAgreeWithoutSuffix ==
  [][(runs # <<>> /\ runs' # <<>>) => SuffixFree(runs[1]) = SuffixFree(runs'[1])]_vars

\* A second run has completed on a corpus with colliding keys, and the
\* suffixes it drew tell the colliding records apart.
C6_Witness ==
  /\ rerun
  /\ Completed
  /\ Last.analysis.collision_instances > 0
  /\ Last.analysis.full_collisions = 0

\* id is prefix "-" type_code "-" sl suffix, position by position.
Composes(id, prefix, type_code, sl, suffix) ==
  LET p == Len(prefix)
      n == Len(sl)
  IN  /\ Len(id) = p + n + 9
      /\ SubSeq(id, 1, p) = prefix
      /\ id[p + 1] = "-"
      /\ SubSeq(id, p + 2, p + 4) = type_code
      /\ id[p + 5] = "-"
      /\ SubSeq(id, p + 6, p + 5 + n) = sl
      /\ SubSeq(id, p + 6 + n, p + n + 9) = suffix

\* C7: every semantic ID, of the loop of main() and of generate_semantic_id,
\* is prefix "-" typeCode "-" slug suffix with nothing between slug and
\* suffix, and total_length is len(prefix) + slug_length + 9.
C7_IdComposition ==
  /\ Ran =>
       \A i \in 1..Len(data) :
         LET r == Last.analysis.results[i]
             prefix == extract_prefix(Get(data[i], "id", <<>>))
         IN  /\ Composes(r.semantic_id, prefix, r.type_code, r.slug, r.suffix)
             /\ r.slug_length = Len(r.slug)
             /\ r.total_length = Len(prefix) + r.slug_length + 9
  /\ composed # <<>> =>
       Composes(composed[1].id, composed[1].prefix,
                TypeCode(composed[1].bead_type),
                generate_semantic_slug(composed[1].title),
                composed[1].suffix)

\* A run has composed the ID of a record with an empty prefix and the ID of
\* a record whose slug was truncated.
C7_Witness ==
  /\ Ran
  /\ \E i \in 1..Len(data) :
       /\ Last.analysis.results[i].slug_length > 30
       /\ Last.analysis.results[i].total_length = 2 + Last.analysis.results[i].slug_length + 9
  /\ \E i \in 1..Len(data) :
       /\ extract_prefix(Get(data[i], "id", <<>>)) = <<>>
       /\ Last.analysis.results[i].total_length = 8 + 9

\* The records of the last run whose semantic ID is also the ID of another
\* record.
FullIdClashes ==
  {i \in 1..Len(data) :
     \E j \in 1..Len(data) :
       /\ j # i
       /\ Last.analysis.results[j].semantic_id
            = Last.analysis.results[i].semantic_id}

\* The work records of the last run whose key is the key of another one.
WorkClashes ==
  {i \in WorkRecords : \E j \in WorkRecords : j # i /\ KeyOf(j) = KeyOf(i)}

\* The sum of the slug lengths of the last run.
TotalSlugLen ==
  Sum([i \in 1..Len(data) |-> Len(Last.analysis.results[i].slug)])

\* The three acceptance checks that can fail, on the last run.
AllChecksPass ==
  /\ FullIdClashes = {}
  /\ \/ WorkRecords = {}
     \/ 100 * Cardinality(WorkClashes) < 5 * Cardinality(WorkRecords)
  /\ 15 * Len(data) < TotalSlugLen
  /\ TotalSlugLen < 35 * Len(data)

\* C11: a completed run recommends PROCEED exactly when no full ID is
\* shared, the work-subset collision rate is below 5% (0 without work
\* beads) and the average slug length is strictly between 15 and 35;
\* otherwise REVIEW NEEDED; the recommendation is printed once.
C11_ProceedIffAllChecksPass ==
  Completed =>
    /\ Last.report.recommendation \in {"PROCEED", "REVIEW NEEDED"}
    /\ (Last.report.recommendation = "PROCEED") <=> AllChecksPass
    /\ Cardinality({k \in 1..Len(Last.report.output) :
                      Last.report.output[k] = "recommendation"}) = 1

\* A run on a corpus with work beads has completed with PROCEED.
C11_Witness ==
  /\ Completed
  /\ WorkRecords # {}
  /\ Len(data) > 1
  /\ Last.report.recommendation = "PROCEED"

\* The segment of id before its first "-" when that segment is not empty,
\* else "gt".
LeadingSegment(id) ==
  IF \E k \in 2..Len(id) : id[k] = "-" /\ \A j \in 1..(k - 1) : id[j] # "-"
  THEN SubSeq(id, 1, (CHOOSE k \in 2..Len(id) :
                        id[k] = "-" /\ \A j \in 1..(k - 1) : id[j] # "-") - 1)
  ELSE Gt

\* C12: the prefix of every record of a run is the segment of its id before
\* the first "-", and "gt" for an id that is empty, has no hyphen or starts
\* with a hyphen; it is never empty.
C12_PrefixNeverEmpty ==
  Ran =>
    \A i \in 1..Len(data) :
      LET r == Last.analysis.results[i]
          prefix == LeadingSegment(Get(data[i], "id", <<>>))
      IN  /\ prefix # <<>>
          /\ Composes(r.semantic_id, prefix, r.type_code, r.slug, r.suffix)

\* The eleven type names and their codes.
ElevenCodes ==
  {<<<<"e", "p", "i", "c">>, <<"e", "p", "c">>>>,
   <<<<"b", "u", "g">>, <<"b", "u", "g">>>>,
   <<<<"t", "a", "s", "k">>, <<"t", "s", "k">>>>,
   <<<<"f", "e", "a", "t", "u", "r", "e">>, <<"f", "t", "r">>>>,
   <<<<"d", "e", "c", "i", "s", "i", "o", "n">>, <<"d", "e", "c">>>>,
   <<<<"c", "o", "n", "v", "o", "y">>, <<"c", "n", "v">>>>,
   <<<<"m", "o", "l", "e", "c", "u", "l", "e">>, <<"m", "o", "l">>>>,
   <<<<"w", "i", "s", "p">>, <<"w", "s", "p">>>>,
   <<<<"a", "g", "e", "n", "t">>, <<"a", "g", "t">>>>,
   <<<<"r", "o", "l", "e">>, <<"r", "o", "l">>>>,
   <<<<"m", "r">>, <<"m", "r", "q">>>>}

\* The code of a label by exact match among the eleven names, else "unk".
ExactCode(label) ==
  IF \E p \in ElevenCodes : p[1] = label
  THEN (CHOOSE p \in ElevenCodes : p[1] = label)[2]
  ELSE <<"u", "n", "k">>

\* The code of a record: of its issue_type, else of its type, else "unk".
RecordCode(issue) ==
  IF "issue_type" \in DOMAIN issue THEN ExactCode(issue.issue_type)
  ELSE IF "type" \in DOMAIN issue THEN ExactCode(issue.type)
  ELSE <<"u", "n", "k">>

\* The type code segment of the ID of the last generate_semantic_id call.
ComposedCode ==
  SubSeq(composed[1].id, Len(composed[1].prefix) + 2,
         Len(composed[1].prefix) + 4)

\* C13: in every run and every call, whatever ran before, the type code is
\* the code of the exactly matching name among the eleven, "unk" for every
\* other label and for a record without a type, and has 3 characters.
C13_TypeCodeExactMatch ==
  /\ Ran =>
       \A i \in 1..Len(data) :
         /\ Last.analysis.results[i].type_code = RecordCode(data[i])
         /\ Len(Last.analysis.results[i].type_code) = 3
  /\ composed # <<>> =>
       /\ ComposedCode = ExactCode(composed[1].bead_type)
       /\ Len(ExactCode(composed[1].bead_type)) = 3

\* generate_semantic_id has resolved the differently-cased label "Epic".
C13_Witness ==
  /\ composed # <<>>
  /\ composed[1].bead_type = <<"E", "p", "i", "c">>
  /\ ComposedCode = <<"u", "n", "k">>

Malformed ==
  \/ stdin.kind # "array"
  \/ \E i \in 1..Len(stdin.items) : stdin.items[i].json # "object"

\* C15: a run on a document that is no well-formed sequence of records
\* ends in an error before any line of the report is printed.
C15_MalformedAbortsBeforeReport ==
  (Ran /\ Malformed)
    => /\ Last.report.error # "none"
       /\ Last.report.output = <<>>


\* ========================================================================
\* lib/nats_client.py
\* ========================================================================

\* ------------------------------------------------------------------------
\* json.dumps(payload).encode("utf-8")
\* ------------------------------------------------------------------------

\* The printable ASCII characters in code order, from U+0020 on (the grave
\* accent is written by its code point).
PrintableAscii ==
  <<" ", "!", "\"", "#", "$", "%", "&", "'", "(", ")", "*", "+",
    ",", "-", ".", "/", "0", "1", "2", "3", "4", "5", "6", "7",
    "8", "9", ":", ";", "<", "=", ">", "?", "@", "A", "B", "C",
    "D", "E", "F", "G", "H", "I", "J", "K", "L", "M", "N", "O",
    "P", "Q", "R", "S", "T", "U", "V", "W", "X", "Y", "Z", "[",
    "\\", "]", "^", "_", "U+0060", "a", "b", "c", "d", "e", "f", "g",
    "h", "i", "j", "k", "l", "m", "n", "o", "p", "q", "r", "s",
    "t", "u", "v", "w", "x", "y", "z", "{", "|", "}", "~">>

\* The byte of an ASCII character.
AsciiByte(c) == 31 + (CHOOSE i \in 1..Len(PrintableAscii) : PrintableAscii[i] = c)

\* s.encode("utf-8") of a str of ASCII characters: one byte each.
EncodeAscii(s) == [i \in 1..Len(s) |-> AsciiByte(s[i])]

\* json.dumps escapes of the characters outside ASCII that payloads hold.
UnicodeEscapes ==
  ("U+00E9" :> <<"\\", "u", "0", "0", "e", "9">>) @@
  ("U+212A" :> <<"\\", "u", "2", "1", "2", "a">>)

\* One character inside a JSON string (ensure_ascii is on).
JsonChar(c) ==
  IF c = "\"" THEN <<"\\", "\"">>
  ELSE IF c = "\\" THEN <<"\\", "\\">>
  ELSE IF c \in DOMAIN UnicodeEscapes THEN UnicodeEscapes[c]
  ELSE <<c>>

\* A str as a JSON string.
JsonString(s) ==
  <<"\"">> \o FoldRange(LAMBDA out, i : out \o JsonChar(s[i]), <<>>, 1, Len(s))
          \o <<"\"">>

\* Values of a payload: a str, an int, or an object json cannot serialise.
StrValue(s) == [json |-> "str", val |-> s]
IntValue(n) == [json |-> "int", val |-> n]
ObjectValue == [json |-> "object", val |-> 0]

JsonValue(v) == IF v.json = "str" THEN JsonString(v.val) ELSE Decimal(v.val)

\* Faulty variant of JsonItem: the compact separator.
JsonItemCompact(item) ==
  JsonString(item.key) \o <<":">> \o JsonValue(item.value)

\* "key": value
JsonItem(item) == JsonString(item.key) \o <<":", " ">> \o JsonValue(item.value)

\* A payload is a dict: its items in insertion order.  json.dumps raises
\* TypeError when a value is not serialisable.
Serialisable(payload) ==
  \A i \in 1..Len(payload) : payload[i].value.json \in {"str", "int"}

\* json.dumps(payload) with the default separators.
JsonDumps(payload) ==
  <<"{">> \o FoldRange(LAMBDA out, i :
                         out \o (IF i > 1 THEN <<",", " ">> ELSE <<>>)
                             \o JsonItem(payload[i]),
                       <<>>, 1, Len(payload))
          \o <<"}">>

\* Line 119: json.dumps(payload).encode("utf-8")
Wire(payload) == EncodeAscii(JsonDumps(payload))

\* Payloads that callers publish.
KeyType == <<"t", "y", "p", "e">>
KeyWho == <<"w", "h", "o">>
KeyN == <<"n">>
KeyAt == <<"a", "t">>
ValuePing == <<"p", "i", "n", "g">>
ValueAccent == <<"R", "e", "n", "U+00E9">>
ValueQuoted == <<"a", "\"", "b", "\\">>

PayloadEmpty == <<>>
PayloadPing == <<[key |-> KeyType, value |-> StrValue(ValuePing)]>>
PayloadAccent ==
  <<[key |-> KeyWho, value |-> StrValue(ValueAccent)],
    [key |-> KeyN, value |-> IntValue(42)]>>
PayloadQuoted == <<[key |-> KeyType, value |-> StrValue(ValueQuoted)]>>
PayloadObject == <<[key |-> KeyAt, value |-> ObjectValue]>>

Payloads ==
  {PayloadEmpty, PayloadPing, PayloadAccent, PayloadQuoted, PayloadObject}

\* Python's None.
None == "None"

\* ------------------------------------------------------------------------
\* Objects
\* ------------------------------------------------------------------------

\* Lines 50-67: a NatsClient after __init__.  nc is the index in conns of
\* the NATS object in _nc, 0 for None; subscriptions is the dict in
\* insertion order.
NewClient == [nc |-> 0, connected |-> FALSE, subscriptions |-> <<>>]

\* Line 83: NATS(), whose callbacks are bound methods of client c.  sid is
\* the last subscription id the object has issued, subs the ids that still
\* have interest.
NewConn(c) == [client |-> c, status |-> "new", sid |-> 0, subs |-> {}]

\* Faulty variant of is_connected: the flag alone decides.
ConnectedByFlag(cs, cl) == cl.connected

\* Lines 69-72
is_connected(cs, cl) ==
  cl.connected /\ cl.nc # 0 /\ cs[cl.nc].status = "open"

\* The keys of _subscriptions.
SubIds(subscriptions) ==
  {subscriptions[i].id : i \in 1..Len(subscriptions)}

\* list(self._subscriptions.keys())
KeyList(subscriptions) ==
  [i \in 1..Len(subscriptions) |-> subscriptions[i].id]

\* self._subscriptions[sub_id]
SubOf(subscriptions, sub_id) ==
  subscriptions[CHOOSE i \in 1..Len(subscriptions) :
                  subscriptions[i].id = sub_id]

\* Line 162: self._subscriptions[sub_id] = sub
SetSub(subscriptions, sub) ==
  IF sub.id \in SubIds(subscriptions)
  THEN [i \in 1..Len(subscriptions) |->
          IF subscriptions[i].id = sub.id THEN sub ELSE subscriptions[i]]
  ELSE Append(subscriptions, sub)

\* Faulty variant of DelSub: the oldest entry goes.
DelSubOldest(subscriptions, sub_id) == Tail(subscriptions)

\* Line 175: del self._subscriptions[sub_id]
DelSub(subscriptions, sub_id) ==
  SelectSeq(subscriptions, LAMBDA s : s.id # sub_id)

\* Line 214: the values of GT_EMIT_EVENTS that enable emission.
TrueWords == {<<"t", "r", "u", "e">>, <<"1">>, <<"y", "e", "s">>}

\* os.environ.get("GT_EMIT_EVENTS", "false"): unset reads as "false".
EnvWords ==
  {<<"f", "a", "l", "s", "e">>, <<"t", "r", "u", "e">>, <<"T", "r", "u", "e">>,
   <<"Y", "E", "S">>, <<"1">>, <<"o", "n">>, <<>>}

\* Lines 214-219
Enabled(word, available) == StrLower(word) \in TrueWords /\ available

\* ------------------------------------------------------------------------
\* Frames: one call of the module by a task, with the awaits it has made
\* ------------------------------------------------------------------------

\* The awaited calls a task makes, the clients and the connections that
\* are constructed, and the callbacks that wait to run.
MaxCalls == 4
MaxClients == 2
MaxConns == 2
MaxPending == 1

\* A call on an object of the NATS library, and how it ended.
Call(method, conn, arg) ==
  [call |-> method, conn |-> conn, arg |-> arg, result |-> "pending"]

NoArg == [none |-> TRUE]

\* A task before its first call.
IdleFrame ==
  [op |-> "none", pc |-> "done", client |-> 0, subject |-> "",
   payload |-> <<>>, queue |-> None, sub_id |-> <<>>, conn |-> 0,
   todo |-> <<>>, trace |-> <<>>, outcome |-> "returned", value |-> None,
   calls |-> 0]

\* The frame of a call of the coroutine op on client c that has just been
\* entered.
Entered(f, op, c) ==
  [IdleFrame EXCEPT !.op = op, !.pc = "run", !.client = c,
                    !.outcome = "pending", !.calls = f.calls + 1]

\* The frame of a call of the function op that has just been entered.
EnteredSync(f, op) ==
  [IdleFrame EXCEPT !.op = op, !.pc = "run", !.outcome = "pending",
                    !.calls = f.calls]

\* return v
Return(f, v) == [f EXCEPT !.pc = "done", !.outcome = "returned", !.value = v]

\* Faulty variant of Raise: emit_event lets the exception through.
RaiseUncaught(f, exc) == [f EXCEPT !.pc = "done", !.outcome = exc]

\* raise exc.  Lines 264-268: inside emit_event every Exception ends the
\* call with False.
Raise(f, exc) ==
  IF f.op = "emit_event" THEN Return(f, FALSE)
  ELSE [f EXCEPT !.pc = "done", !.outcome = exc]

\* The frame suspended at "await call".
Awaiting(f, pc, call) ==
  [f EXCEPT !.pc = pc, !.trace = Append(@, call), !.conn = call.conn]

\* The frame when the awaited call has ended with result.
Resumed(f, result) ==
  [f EXCEPT !.trace = [@ EXCEPT ![Len(@)].result = result]]

\* Lines 116-120: publish up to its first await.
PublishBegin(f, cl, cs) ==
  IF ~is_connected(cs, cl) THEN Raise(f, "ConnectionError")
  ELSE IF ~Serialisable(f.payload) THEN Raise(f, "TypeError")
  ELSE Awaiting(f, "publish",
                Call("publish", cl.nc,
                     [subject |-> f.subject, data |-> Wire(f.payload)]))

\* Lines 141-160: subscribe up to its await.  A queue of None or "" is
\* not passed on.
SubscribeBegin(f, cl, cs) ==
  IF ~is_connected(cs, cl) THEN Raise(f, "ConnectionError")
  ELSE Awaiting(f, "subscribe",
                Call("subscribe", cl.nc,
                     [subject |-> f.subject,
                      queue |-> IF f.queue \in {None, ""} THEN None
                                ELSE f.queue]))

\* Lines 172-174: unsubscribe(sub_id) up to its await, for a registered id.
UnsubscribeBegin(f, cl, sub_id) ==
  Awaiting([f EXCEPT !.sub_id = sub_id], "unsubscribe",
           Call("unsubscribe", SubOf(cl.subscriptions, sub_id).conn,
                [sid |-> SubOf(cl.subscriptions, sub_id).sid]))

\* Lines 186-190: the end of close(), after the drain or its exception.
Cleared(cl) == [cl EXCEPT !.connected = FALSE, !.nc = 0]

\* Lines 180-190: close() from the loop over the ids in f.todo on, up to
\* its next await or its end.  An id the registry no longer holds is passed
\* over without an await; self._nc.drain() on None raises AttributeError,
\* which line 186 swallows.
CloseContinue(f, cl) ==
  LET live == {i \in 1..Len(f.todo) : f.todo[i] \in SubIds(cl.subscriptions)}
      next == CHOOSE i \in live : \A j \in live : i <= j
  IN  IF live # {}
      THEN [frame |-> UnsubscribeBegin(
                        [f EXCEPT !.todo = SubSeq(@, next + 1, Len(@))],
                        cl, f.todo[next]),
            client |-> cl]
      ELSE IF cl.nc = 0
      THEN [frame |-> Return([f EXCEPT !.todo = <<>>], None),
            client |-> Cleared(cl)]
      ELSE [frame |-> Awaiting([f EXCEPT !.todo = <<>>], "drain",
                               Call("drain", cl.nc, NoArg)),
            client |-> cl]

\* Lines 179-181: close() up to its first await or its end.
CloseBegin(f, cl) ==
  IF cl.nc = 0 THEN [frame |-> Return(f, None), client |-> cl]
  ELSE CloseContinue([f EXCEPT !.todo = KeyList(cl.subscriptions)], cl)

\* Lines 275-277: close_nats_client forgets the client once close() has
\* returned.
SingletonAfter(f, current) ==
  IF f.op = "close_nats_client" /\ f.pc = "done" /\ f.outcome = "returned"
  THEN 0 ELSE current

\* ------------------------------------------------------------------------
\* The module in use: tasks call it, the NATS library answers
\* ------------------------------------------------------------------------

\* How an awaited call of the library can end: by returning ("ok") or by
\* an exception.  "Error" is an exception that line 96 does not name.
Results ==
  [connect |-> {"ok", "NoServersError", "TimeoutError", "OSError", "Error"},
   publish |-> {"ok", "ConnectionClosedError"},
   flush |-> {"ok", "TimeoutError"},
   subscribe |-> {"ok", "ConnectionClosedError"},
   unsubscribe |-> {"ok", "ConnectionClosedError"},
   drain |-> {"ok", "Error"}]

\* Line 96: except (NoServersError, TimeoutError, OSError)
CaughtByConnect == {"NoServersError", "TimeoutError", "OSError"}

\* Ids that callers pass to unsubscribe.
CallerSubIds == {Decimal(k) : k \in 1..MaxCalls}

\* What callers publish and subscribe to.
Messages ==
  {[subject |-> "hq.feed", payload |-> PayloadEmpty],
   [subject |-> "hq.feed", payload |-> PayloadPing],
   [subject |-> "gastown.events", payload |-> PayloadAccent],
   [subject |-> "gastown.events", payload |-> PayloadQuoted],
   [subject |-> "hq.feed", payload |-> PayloadObject]}
Interests ==
  {[subject |-> "hq.feed", queue |-> None],
   [subject |-> "hq.feed", queue |-> ""],
   [subject |-> "gastown.events", queue |-> "workers"]}

\* The script is not in use.
ScriptUnused ==
  /\ NoSlugCall
  /\ name = Imported
  /\ stdin = ArrayDocument(<<>>)
  /\ data = <<>>
  /\ runs = <<>>
  /\ rerun = FALSE
  /\ composed = <<>>

\* No object of the module exists yet; one task will call it.
Imported1 ==
  /\ singleton = 0
  /\ clients = <<>>
  /\ conns = <<>>
  /\ callbacks = <<>>
  /\ tasks = [t \in {"main"} |-> IdleFrame]

\* The module imported by a program that constructs its clients itself.
NatsInit ==
  /\ ScriptUnused
  /\ WatcherUnused
  /\ emit_events = <<"f", "a", "l", "s", "e">>
  /\ nats_available \in BOOLEAN
  /\ Imported1

\* The module imported by a program that uses emit_event, get_nats_client
\* and close_nats_client.
EmitInit ==
  /\ ScriptUnused
  /\ WatcherUnused
  /\ emit_events \in EnvWords
  /\ nats_available \in BOOLEAN
  /\ Imported1

Idle(t) == tasks[t].pc = "done"
Ready(t) == Idle(t) /\ tasks[t].calls < MaxCalls

\* Lines 82-92: self._nc = NATS() and the await of its connect().
ConnectBegin(t, f, c, cls) ==
  /\ Len(conns) < MaxConns
  /\ conns' = Append(conns, NewConn(c))
  /\ clients' = [cls EXCEPT ![c].nc = Len(conns) + 1]
  /\ tasks' = [tasks EXCEPT
                 ![t] = Awaiting(f, "connect",
                                 Call("connect", Len(conns) + 1, NoArg))]

\* Lines 50-60: NatsClient()
Construct(t) ==
  /\ Idle(t)
  /\ IF nats_available
     THEN /\ Len(clients) < MaxClients
          /\ clients' = Append(clients, NewClient)
          /\ tasks' = [tasks EXCEPT
                         ![t] = Return(EnteredSync(tasks[t], "NatsClient"),
                                       Len(clients) + 1)]
     ELSE /\ clients' = clients
          /\ tasks' = [tasks EXCEPT
                         ![t] = Raise(EnteredSync(tasks[t], "NatsClient"),
                                      "RuntimeError")]
  /\ UNCHANGED <<scriptVars, watcherVars, emit_events, nats_available, singleton, conns,
                 callbacks>>

\* Lines 74-92: connect() up to its await.
Connect(t, c) ==
  /\ Ready(t)
  /\ IF is_connected(conns, clients[c])
     THEN /\ tasks' = [tasks EXCEPT
                         ![t] = Return(Entered(tasks[t], "connect", c), None)]
          /\ UNCHANGED <<clients, conns>>
     ELSE ConnectBegin(t, Entered(tasks[t], "connect", c), c, clients)
  /\ UNCHANGED <<scriptVars, watcherVars, emit_events, nats_available, singleton, callbacks>>

\* Lines 93-103: the awaited connect() ends.  Inside emit_event a successful
\* connect is followed by publish (lines 262-263).
ConnectResume(t) ==
  /\ tasks[t].pc = "connect"
  /\ \E r \in Results.connect :
       \E f \in {Resumed(tasks[t], r)} :
         IF r = "ok"
         THEN \E cs \in {[conns EXCEPT ![f.conn].status = "open"]},
                 cl \in {[clients[f.client] EXCEPT !.connected = TRUE]} :
                /\ conns' = cs
                /\ clients' = [clients EXCEPT ![f.client] = cl]
                /\ tasks' = [tasks EXCEPT
                               ![t] = IF f.op = "emit_event"
                                      THEN PublishBegin(f, cl, cs)
                                      ELSE Return(f, None)]
         ELSE IF r \in CaughtByConnect
         THEN /\ conns' = conns
              /\ clients' = [clients EXCEPT ![f.client].connected = FALSE]
              /\ tasks' = [tasks EXCEPT ![t] = Raise(f, "ConnectionError")]
         ELSE /\ UNCHANGED <<conns, clients>>
              /\ tasks' = [tasks EXCEPT ![t] = Raise(f, r)]
  /\ UNCHANGED <<scriptVars, watcherVars, emit_events, nats_available, singleton, callbacks>>

\* Lines 105-120: publish(subject, payload) up to its first await.
Publish(t, c, subject, payload) ==
  /\ Ready(t)
  /\ tasks' = [tasks EXCEPT
                 ![t] = PublishBegin([Entered(tasks[t], "publish", c)
                                        EXCEPT !.subject = subject,
                                               !.payload = payload],
                                     clients[c], conns)]
  /\ UNCHANGED <<scriptVars, watcherVars, emit_events, nats_available, singleton, clients,
                 conns, callbacks>>

\* Lines 120-121: the awaited publish ends; self._nc.flush() follows on
\* whatever _nc holds by then.
PublishResume(t) ==
  /\ tasks[t].pc = "publish"
  /\ \E r \in Results.publish :
       \E f \in {Resumed(tasks[t], r)} :
         /\ r = "ok" => conns[f.conn].status # "closed"
         /\ tasks' = [tasks EXCEPT
                        ![t] = IF r # "ok" THEN Raise(f, r)
                               ELSE IF clients[f.client].nc = 0
                               THEN Raise(f, "AttributeError")
                               ELSE Awaiting(f, "flush",
                                             Call("flush",
                                                  clients[f.client].nc,
                                                  NoArg))]
  /\ UNCHANGED <<scriptVars, watcherVars, emit_events, nats_available, singleton, clients,
                 conns, callbacks>>

\* Line 121: the awaited flush ends.  emit_event returns True (line 264).
FlushResume(t) ==
  /\ tasks[t].pc = "flush"
  /\ \E r \in Results.flush :
       \E f \in {Resumed(tasks[t], r)} :
         tasks' = [tasks EXCEPT
                     ![t] = IF r # "ok" THEN Raise(f, r)
                            ELSE Return(f, IF f.op = "emit_event" THEN TRUE
                                           ELSE None)]
  /\ UNCHANGED <<scriptVars, watcherVars, emit_events, nats_available, singleton, clients,
                 conns, callbacks>>

\* Lines 123-160: subscribe(subject, callback, queue) up to its await.
Subscribe(t, c, subject, queue) ==
  /\ Ready(t)
  /\ tasks' = [tasks EXCEPT
                 ![t] = SubscribeBegin([Entered(tasks[t], "subscribe", c)
                                          EXCEPT !.subject = subject,
                                                 !.queue = queue],
                                       clients[c], conns)]
  /\ UNCHANGED <<scriptVars, watcherVars, emit_events, nats_available, singleton, clients,
                 conns, callbacks>>

\* Lines 161-164: the awaited subscribe ends; the subscription is
\* registered under str(sub.sid).
SubscribeResume(t) ==
  /\ tasks[t].pc = "subscribe"
  /\ \E r \in Results.subscribe :
       \E f \in {Resumed(tasks[t], r)} :
         IF r = "ok"
         THEN \E sid \in {conns[f.conn].sid + 1} :
                /\ conns[f.conn].status # "closed"
                /\ conns' = [conns EXCEPT ![f.conn].sid = sid,
                                          ![f.conn].subs = @ \cup {sid}]
                /\ clients' = [clients EXCEPT
                                 ![f.client].subscriptions =
                                    SetSub(@, [id |-> Decimal(sid),
                                               conn |-> f.conn,
                                               sid |-> sid])]
                /\ tasks' = [tasks EXCEPT ![t] = Return(f, Decimal(sid))]
         ELSE /\ UNCHANGED <<conns, clients>>
              /\ tasks' = [tasks EXCEPT ![t] = Raise(f, r)]
  /\ UNCHANGED <<scriptVars, watcherVars, emit_events, nats_available, singleton, callbacks>>

\* Lines 166-174: unsubscribe(sub_id) up to its await.
Unsubscribe(t, c, sub_id) ==
  /\ Ready(t)
  /\ tasks' = [tasks EXCEPT
                 ![t] = IF sub_id \in SubIds(clients[c].subscriptions)
                        THEN UnsubscribeBegin(
                               Entered(tasks[t], "unsubscribe", c),
                               clients[c], sub_id)
                        ELSE Return([Entered(tasks[t], "unsubscribe", c)
                                       EXCEPT !.sub_id = sub_id], None)]
  /\ UNCHANGED <<scriptVars, watcherVars, emit_events, nats_available, singleton, clients,
                 conns, callbacks>>

\* Lines 174-175: the awaited sub.unsubscribe() ends and the id is deleted;
\* inside close() the loop of line 181 goes on.
UnsubscribeResume(t) ==
  /\ tasks[t].pc = "unsubscribe"
  /\ \E r \in Results.unsubscribe :
       \E f \in {Resumed(tasks[t], r)} :
         IF r # "ok"
         THEN /\ tasks' = [tasks EXCEPT ![t] = Raise(f, r)]
              /\ UNCHANGED <<clients, conns, singleton>>
         ELSE /\ conns' = [conns EXCEPT
                             ![f.conn].subs =
                                @ \ {f.trace[Len(f.trace)].arg.sid}]
              /\ IF f.sub_id \notin SubIds(clients[f.client].subscriptions)
                 THEN /\ tasks' = [tasks EXCEPT ![t] = Raise(f, "KeyError")]
                      /\ UNCHANGED <<clients, singleton>>
                 ELSE \E cl \in {[clients[f.client] EXCEPT
                                    !.subscriptions = DelSub(@, f.sub_id)]} :
                        IF f.op = "unsubscribe"
                        THEN /\ tasks' = [tasks EXCEPT ![t] = Return(f, None)]
                             /\ clients' = [clients EXCEPT ![f.client] = cl]
                             /\ singleton' = singleton
                        ELSE \E step \in {CloseContinue(f, cl)} :
                               /\ tasks' = [tasks EXCEPT ![t] = step.frame]
                               /\ clients' = [clients EXCEPT
                                                ![f.client] = step.client]
                               /\ singleton' =
                                    SingletonAfter(step.frame, singleton)
  /\ UNCHANGED <<scriptVars, watcherVars, emit_events, nats_available, callbacks>>

\* Lines 177-184: close() up to its first await or its end.
Close(t, c) ==
  /\ Ready(t)
  /\ \E step \in {CloseBegin(Entered(tasks[t], "close", c), clients[c])} :
       /\ tasks' = [tasks EXCEPT ![t] = step.frame]
       /\ clients' = [clients EXCEPT ![c] = step.client]
  /\ UNCHANGED <<scriptVars, watcherVars, emit_events, nats_available, singleton, conns,
                 callbacks>>

\* Lines 184-190: the awaited drain ends, by returning or by an exception
\* that is swallowed; the client forgets the connection.  A drained
\* connection is closed and reports it through closed_cb.
DrainResume(t) ==
  /\ tasks[t].pc = "drain"
  /\ \E r \in Results.drain :
       \E f \in {Return(Resumed(tasks[t], r), None)} :
         /\ IF r = "ok"
            THEN /\ conns' = [conns EXCEPT ![f.conn].status = "closed",
                                           ![f.conn].subs = {}]
                 /\ callbacks' = Append(callbacks,
                                        [client |-> conns[f.conn].client,
                                         kind |-> "closed"])
            ELSE UNCHANGED <<conns, callbacks>>
         /\ clients' = [clients EXCEPT ![f.client] = Cleared(@)]
         /\ tasks' = [tasks EXCEPT ![t] = f]
         /\ singleton' = SingletonAfter(f, singleton)
  /\ UNCHANGED <<scriptVars, watcherVars, emit_events, nats_available>>

\* Lines 210-230: get_nats_client()
GetNatsClient(t) ==
  /\ Idle(t)
  /\ IF ~Enabled(emit_events, nats_available)
     THEN /\ tasks' = [tasks EXCEPT
                         ![t] = Return(EnteredSync(tasks[t],
                                                   "get_nats_client"), None)]
          /\ UNCHANGED <<singleton, clients>>
     ELSE IF singleton # 0
     THEN /\ tasks' = [tasks EXCEPT
                         ![t] = Return(EnteredSync(tasks[t],
                                                   "get_nats_client"),
                                       singleton)]
          /\ UNCHANGED <<singleton, clients>>
     ELSE /\ Len(clients) < MaxClients
          /\ clients' = Append(clients, NewClient)
          /\ singleton' = Len(clients) + 1
          /\ tasks' = [tasks EXCEPT
                         ![t] = Return(EnteredSync(tasks[t],
                                                   "get_nats_client"),
                                       Len(clients) + 1)]
  /\ UNCHANGED <<scriptVars, watcherVars, emit_events, nats_available, conns, callbacks>>

\* Lines 233-263: emit_event(subject, payload) up to its first await or its
\* end.
EmitEvent(t, subject, payload) ==
  /\ Ready(t)
  /\ IF ~Enabled(emit_events, nats_available)
     THEN /\ tasks' = [tasks EXCEPT
                         ![t] = Return([Entered(tasks[t], "emit_event", 0)
                                          EXCEPT !.subject = subject,
                                                 !.payload = payload], FALSE)]
          /\ UNCHANGED <<singleton, clients, conns>>
     ELSE /\ singleton = 0 => Len(clients) < MaxClients
          /\ \E c \in {IF singleton = 0 THEN Len(clients) + 1 ELSE singleton},
                cls \in {IF singleton = 0 THEN Append(clients, NewClient)
                         ELSE clients} :
               \E f \in {[Entered(tasks[t], "emit_event", c)
                            EXCEPT !.subject = subject,
                                   !.payload = payload]} :
                 /\ singleton' = c
                 /\ IF is_connected(conns, cls[c])
                    THEN /\ tasks' = [tasks EXCEPT
                                        ![t] = PublishBegin(f, cls[c], conns)]
                         /\ clients' = cls
                         /\ conns' = conns
                    ELSE ConnectBegin(t, f, c, cls)
  /\ UNCHANGED <<scriptVars, watcherVars, emit_events, nats_available, callbacks>>

\* Lines 271-277: close_nats_client() up to its first await or its end.
CloseNatsClient(t) ==
  /\ Ready(t)
  /\ IF singleton = 0
     THEN /\ tasks' = [tasks EXCEPT
                         ![t] = Return(Entered(tasks[t], "close_nats_client",
                                               0), None)]
          /\ UNCHANGED <<singleton, clients>>
     ELSE \E step \in {CloseBegin(Entered(tasks[t], "close_nats_client",
                                          singleton),
                                  clients[singleton])} :
            /\ tasks' = [tasks EXCEPT ![t] = step.frame]
            /\ clients' = [clients EXCEPT ![singleton] = step.client]
            /\ singleton' = SingletonAfter(step.frame, singleton)
  /\ UNCHANGED <<scriptVars, watcherVars, emit_events, nats_available, conns, callbacks>>

\* The library schedules one of the callbacks given to connect() (lines
\* 87-90).
Schedule(i, kind) ==
  /\ Len(callbacks) < MaxPending
  /\ callbacks' = Append(callbacks, [client |-> conns[i].client, kind |-> kind])

\* The connection i is lost; the library starts to reconnect.
ConnLost(i) ==
  /\ conns[i].status = "open"
  /\ conns' = [conns EXCEPT ![i].status = "reconnecting"]
  /\ Schedule(i, "disconnected")
  /\ UNCHANGED <<scriptVars, watcherVars, emit_events, nats_available, singleton, clients,
                 tasks>>

\* The library has reconnected the connection i.
ConnRestored(i) ==
  /\ conns[i].status = "reconnecting"
  /\ conns' = [conns EXCEPT ![i].status = "open"]
  /\ Schedule(i, "reconnected")
  /\ UNCHANGED <<scriptVars, watcherVars, emit_events, nats_available, singleton, clients,
                 tasks>>

\* The library gives the connection i up.
ConnClosed(i) ==
  /\ conns[i].status \in {"open", "reconnecting"}
  /\ conns' = [conns EXCEPT ![i].status = "closed", ![i].subs = {}]
  /\ Schedule(i, "closed")
  /\ UNCHANGED <<scriptVars, watcherVars, emit_events, nats_available, singleton, clients,
                 tasks>>

\* The library reports an error of the connection i.
ConnError(i) ==
  /\ conns[i].status \in {"open", "reconnecting"}
  /\ Schedule(i, "error")
  /\ UNCHANGED <<scriptVars, watcherVars, emit_events, nats_available, singleton, clients,
                 conns, tasks>>

\* Lines 192-207: the callback scheduled first runs.
RunCallback ==
  /\ callbacks # <<>>
  /\ callbacks' = Tail(callbacks)
  /\ clients' =
       IF Head(callbacks).kind = "error" THEN clients
       ELSE [clients EXCEPT
               ![Head(callbacks).client].connected =
                  (Head(callbacks).kind = "reconnected")]
  /\ UNCHANGED <<scriptVars, watcherVars, emit_events, nats_available, singleton, conns,
                 tasks>>

\* The library acts on a connection, or a callback runs.
Library ==
  \/ \E i \in 1..Len(conns) : ConnLost(i)
  \/ \E i \in 1..Len(conns) : ConnRestored(i)
  \/ \E i \in 1..Len(conns) : ConnClosed(i)
  \/ \E i \in 1..Len(conns) : ConnError(i)
  \/ RunCallback

\* An awaited call of the library ends.
Resume ==
  \/ \E t \in DOMAIN tasks : ConnectResume(t)
  \/ \E t \in DOMAIN tasks : PublishResume(t)
  \/ \E t \in DOMAIN tasks : FlushResume(t)
  \/ \E t \in DOMAIN tasks : SubscribeResume(t)
  \/ \E t \in DOMAIN tasks : UnsubscribeResume(t)
  \/ \E t \in DOMAIN tasks : DrainResume(t)

NatsNext ==
  \/ \E t \in DOMAIN tasks : Construct(t)
  \/ \E t \in DOMAIN tasks, c \in 1..Len(clients) : Connect(t, c)
  \/ \E t \in DOMAIN tasks, c \in 1..Len(clients), m \in Messages :
       Publish(t, c, m.subject, m.payload)
  \/ \E t \in DOMAIN tasks, c \in 1..Len(clients), i \in Interests :
       Subscribe(t, c, i.subject, i.queue)
  \/ \E t \in DOMAIN tasks, c \in 1..Len(clients), sub_id \in CallerSubIds :
       Unsubscribe(t, c, sub_id)
  \/ \E t \in DOMAIN tasks, c \in 1..Len(clients) : Close(t, c)
  \/ Resume
  \/ Library

\* emit_event, get_nats_client and close_nats_client, and subscribe on the
\* client that get_nats_client has returned.
EmitNext ==
  \/ \E t \in DOMAIN tasks : GetNatsClient(t)
  \/ \E t \in DOMAIN tasks, m \in Messages :
       EmitEvent(t, m.subject, m.payload)
  \/ \E t \in DOMAIN tasks : CloseNatsClient(t)
  \/ \E t \in DOMAIN tasks, i \in Interests :
       singleton # 0 /\ Subscribe(t, singleton, i.subject, i.queue)
  \/ Resume
  \/ Library

SpecNats == NatsInit /\ [][NatsNext]_vars
SpecEmit == EmitInit /\ [][EmitNext]_vars

\* ------------------------------------------------------------------------
\* Properties of NatsClient (checked under SpecNats)
\* ------------------------------------------------------------------------

\* The client c is not connected: its flag is down, it holds no connection,
\* or the connection it holds is not open.
NotConnected(c) ==
  \/ ~clients[c].connected
  \/ clients[c].nc = 0
  \/ conns[clients[c].nc].status # "open"

\* In this step the task t enters a call of one of ops.
EntersCall(t, ops) ==
  /\ tasks[t].pc = "done"
  /\ tasks'[t].calls = tasks[t].calls + 1
  /\ tasks'[t].op \in ops

\* C16: publish and subscribe called on a client that is not connected raise
\* ConnectionError, call nothing on the underlying connection and leave the
\* subscription registry (and every other field of the client) as it was.
C16_NotConnectedRaises ==
  [][\A t \in DOMAIN tasks :
       (EntersCall(t, {"publish", "subscribe"})
          /\ NotConnected(tasks'[t].client))
       => /\ tasks'[t].pc = "done"
          /\ tasks'[t].outcome = "ConnectionError"
          /\ tasks'[t].trace = <<>>
          /\ UNCHANGED <<clients, conns>>]_vars

\* A publish has raised ConnectionError on a client whose flag a closed
\* callback has taken down; the client still holds the connection.
C16_Witness ==
  \E t \in DOMAIN tasks :
    /\ tasks[t].op = "publish"
    /\ tasks[t].outcome = "ConnectionError"
    /\ tasks[t].trace = <<>>
    /\ clients[tasks[t].client].nc # 0
    /\ ~clients[tasks[t].client].connected
    /\ conns[clients[tasks[t].client].nc].status = "closed"

\* The bytes json.dumps(payload).encode("utf-8") gives for the payloads that
\* can be serialised: {}, {"type": "ping"}, {"who": "Ren\u00e9", "n": 42}
\* and {"type": "a\"b\\"}.
JsonBytes ==
  (PayloadEmpty :>
    <<123, 125>>) @@
  (PayloadPing :>
    <<123, 34, 116, 121, 112, 101, 34, 58, 32, 34, 112, 105, 110, 103, 34,
      125>>) @@
  (PayloadAccent :>
    <<123, 34, 119, 104, 111, 34, 58, 32, 34, 82, 101, 110, 92, 117, 48,
      48, 101, 57, 34, 44, 32, 34, 110, 34, 58, 32, 52, 50, 125>>) @@
  (PayloadQuoted :>
    <<123, 34, 116, 121, 112, 101, 34, 58, 32, 34, 97, 92, 34, 98, 92, 92,
      34, 125>>)

\* The last call of task t is a publish that has returned.
Published(t) ==
  /\ tasks[t].op = "publish"
  /\ tasks[t].pc = "done"
  /\ tasks[t].outcome = "returned"

\* C17: a publish that returns has made two calls on the connection the
\* client holds and no other: one publish, to the subject and with the JSON
\* bytes of the payload, and after it one flush.
C17_PublishSendsOnceThenFlushes ==
  \A t \in DOMAIN tasks :
    Published(t)
    => /\ Len(tasks[t].trace) = 2
       /\ tasks[t].trace[1] =
            [call |-> "publish", conn |-> clients[tasks[t].client].nc,
             arg |-> [subject |-> tasks[t].subject,
                      data |-> JsonBytes[tasks[t].payload]],
             result |-> "ok"]
       /\ tasks[t].trace[2] =
            [call |-> "flush", conn |-> clients[tasks[t].client].nc,
             arg |-> NoArg, result |-> "ok"]

\* A publish of {"who": "Ren\u00e9", "n": 42} has returned.
C17_Witness ==
  \E t \in DOMAIN tasks :
    /\ Published(t)
    /\ tasks[t].payload = PayloadAccent
    /\ tasks[t].subject = "gastown.events"

\* str(sid) for the subscription ids a connection issues.
SidStr == <<<<"1">>, <<"2">>, <<"3">>, <<"4">>, <<"5">>, <<"6">>>>

\* In this step the awaited call of task t at pc ends and the call of the
\* task returns.
Completes(t, pc) ==
  /\ tasks[t].pc = pc
  /\ tasks'[t].pc = "done"
  /\ tasks'[t].outcome = "returned"

\* The registry of client c before and after the step.
Registry(c) == clients[c].subscriptions
RegistryAfter(c) == clients'[c].subscriptions

\* C18: a subscribe that returns gives str(sid) of the subscription the
\* connection has just created and registers that subscription under it; an
\* unsubscribe of a registered id that returns has called unsubscribe() of
\* the registered subscription once, and nothing else, and has removed the
\* id and no other; an unsubscribe of an id that is not registered returns
\* at once and changes nothing; and no other step outside close() changes a
\* registry.  So a registry holds the ids subscribe has returned and
\* unsubscribe has not removed.
C18_RegistryTracksSubscriptions ==
  [][/\ \A t \in DOMAIN tasks :
          (tasks[t].op = "subscribe" /\ Completes(t, "subscribe"))
          => \E sid \in conns'[tasks[t].conn].subs \ conns[tasks[t].conn].subs :
               /\ tasks'[t].value = SidStr[sid]
               /\ SubIds(RegistryAfter(tasks[t].client)) =
                    SubIds(Registry(tasks[t].client)) \cup {SidStr[sid]}
               /\ SubOf(RegistryAfter(tasks[t].client), SidStr[sid]) =
                    [id |-> SidStr[sid], conn |-> tasks[t].conn, sid |-> sid]
     /\ \A t \in DOMAIN tasks :
          (tasks[t].op = "unsubscribe" /\ Completes(t, "unsubscribe"))
          => /\ tasks[t].sub_id \in SubIds(Registry(tasks[t].client))
             /\ Len(tasks'[t].trace) = 1
             /\ tasks'[t].trace[1] =
                  [call |-> "unsubscribe",
                   conn |-> SubOf(Registry(tasks[t].client),
                                  tasks[t].sub_id).conn,
                   arg |-> [sid |-> SubOf(Registry(tasks[t].client),
                                          tasks[t].sub_id).sid],
                   result |-> "ok"]
             /\ KeyList(RegistryAfter(tasks[t].client)) =
                  SelectSeq(KeyList(Registry(tasks[t].client)),
                            LAMBDA id : id # tasks[t].sub_id)
     /\ \A t \in DOMAIN tasks :
          (EntersCall(t, {"unsubscribe"})
             /\ tasks'[t].sub_id \notin SubIds(Registry(tasks'[t].client)))
          => /\ tasks'[t].pc = "done"
             /\ tasks'[t].outcome = "returned"
             /\ tasks'[t].trace = <<>>
             /\ UNCHANGED <<clients, conns>>
     /\ \A c \in 1..Len(clients) :
          RegistryAfter(c) # Registry(c)
          => \E t \in DOMAIN tasks :
               /\ tasks[t].client = c
               /\ \/ tasks[t].op = "subscribe" /\ Completes(t, "subscribe")
                  \/ tasks[t].op = "unsubscribe" /\ Completes(t, "unsubscribe")
                  \/ tasks[t].op = "close" /\ tasks[t].pc = "unsubscribe"]_vars

\* An unsubscribe of the second of two registered ids has returned: the
\* first one is still registered.
C18_Witness ==
  \E t \in DOMAIN tasks :
    /\ tasks[t].op = "unsubscribe"
    /\ tasks[t].outcome = "returned"
    /\ tasks[t].sub_id = SidStr[2]
    /\ Len(tasks[t].trace) = 1
    /\ KeyList(Registry(tasks[t].client)) = <<SidStr[1]>>

\* In this step a close() of task t that found a connection in the client
\* ends, by returning or by an exception.
CloseEnds(t) ==
  /\ tasks[t].op = "close"
  /\ tasks[t].pc \in {"unsubscribe", "drain"}
  /\ tasks'[t].pc = "done"

\* The calls of a trace, in order.
CallsOf(trace) == [i \in 1..Len(trace) |-> trace[i].call]

\* Some unsubscribe calls and then one drain.
UnsubscribesThenDrain(calls) ==
  /\ calls # <<>>
  /\ \A i \in 1..Len(calls) :
       calls[i] = (IF i < Len(calls) THEN "unsubscribe" ELSE "drain")

\* The client c is as close() leaves it.
ClearedAfter(c) ==
  /\ RegistryAfter(c) = <<>>
  /\ ~clients'[c].connected
  /\ clients'[c].nc = 0

\* C19: when close() ends on a client that held a connection, the registry
\* is empty, the calls made are the unsubscribes followed by one drain, the
\* flag is down and the client holds no connection, whether the drain
\* raised or not; close() on a client that holds no connection returns at
\* once and changes nothing.
C19_CloseClearsClient ==
  [][\A t \in DOMAIN tasks :
       /\ CloseEnds(t)
          => /\ ClearedAfter(tasks[t].client)
             /\ UnsubscribesThenDrain(CallsOf(tasks'[t].trace))
       /\ (EntersCall(t, {"close"}) /\ clients[tasks'[t].client].nc = 0)
          => /\ tasks'[t].pc = "done"
             /\ tasks'[t].outcome = "returned"
             /\ tasks'[t].trace = <<>>
             /\ UNCHANGED <<clients, conns>>]_vars

\* The same for the close() calls that return, which the code keeps: an
\* unsubscribe that raises is what breaks it.
ReturnedCloseClearsClient ==
  [][\A t \in DOMAIN tasks :
       /\ (CloseEnds(t) /\ tasks'[t].outcome = "returned")
          => /\ ClearedAfter(tasks[t].client)
             /\ UnsubscribesThenDrain(CallsOf(tasks'[t].trace))
       /\ (EntersCall(t, {"close"}) /\ clients[tasks'[t].client].nc = 0)
          => /\ tasks'[t].pc = "done"
             /\ tasks'[t].outcome = "returned"
             /\ tasks'[t].trace = <<>>
             /\ UNCHANGED <<clients, conns>>]_vars

\* ------------------------------------------------------------------------
\* Properties of emit_event (checked under SpecEmit)
\* ------------------------------------------------------------------------

\* The values of GT_EMIT_EVENTS, among those of the model, that enable
\* emission: "true", "True", "YES" and "1".
EnablingWords ==
  {<<"t", "r", "u", "e">>, <<"T", "r", "u", "e">>, <<"Y", "E", "S">>, <<"1">>}

\* Emission is enabled and nats-py is there.
CanEmit == emit_events \in EnablingWords /\ nats_available

\* The frame f has published its payload: its last two calls are a publish
\* of the payload to the subject and a flush, and both have returned.
HasPublished(f) ==
  /\ Len(f.trace) >= 2
  /\ f.payload \in DOMAIN JsonBytes
  /\ f.trace[Len(f.trace) - 1].call = "publish"
  /\ f.trace[Len(f.trace) - 1].arg =
       [subject |-> f.subject, data |-> JsonBytes[f.payload]]
  /\ f.trace[Len(f.trace) - 1].result = "ok"
  /\ f.trace[Len(f.trace)].call = "flush"
  /\ f.trace[Len(f.trace)].result = "ok"

\* A call of the frame f has failed.
HasFailed(f) == \E i \in 1..Len(f.trace) : f.trace[i].result # "ok"

\* The calls emit_event can make, in their order.
EmitCalls ==
  {<<>>, <<"connect">>, <<"connect", "publish">>,
   <<"connect", "publish", "flush">>, <<"publish">>, <<"publish", "flush">>}

\* C20: emit_event never raises; it returns True if it has published the
\* payload and False if not, in particular False when connect, publish or
\* flush has failed; when GT_EMIT_EVENTS does not enable emission or nats-py
\* is missing it returns False at once, calls nothing and changes no client,
\* connection or singleton; when the client is not connected it calls
\* connect() first, and publish only after connect has returned.
C20_EmitEventReportsPublication ==
  [][\A t \in DOMAIN tasks :
       /\ (tasks'[t].op = "emit_event" /\ tasks'[t].pc = "done")
          => /\ tasks'[t].outcome = "returned"
             /\ tasks'[t].value \in BOOLEAN
             /\ tasks'[t].value = HasPublished(tasks'[t])
             /\ HasFailed(tasks'[t]) => tasks'[t].value = FALSE
       /\ tasks'[t].op = "emit_event"
          => CallsOf(tasks'[t].trace) \in EmitCalls
       /\ (EntersCall(t, {"emit_event"}) /\ ~CanEmit)
          => /\ tasks'[t].pc = "done"
             /\ tasks'[t].value = FALSE
             /\ tasks'[t].trace = <<>>
             /\ UNCHANGED <<clients, conns, singleton>>
       /\ (EntersCall(t, {"emit_event"}) /\ CanEmit
             /\ (singleton = 0 \/ NotConnected(singleton)))
          => /\ tasks'[t].pc = "connect"
             /\ CallsOf(tasks'[t].trace) = <<"connect">>
       /\ (EntersCall(t, {"emit_event"}) /\ CanEmit
             /\ singleton # 0 /\ ~NotConnected(singleton))
          => "connect" \notin {tasks'[t].trace[i].call :
                                 i \in 1..Len(tasks'[t].trace)}]_vars

\* emit_event has connected the client, published a payload with a
\* character outside ASCII and returned True.
C20_Witness ==
  \E t \in DOMAIN tasks :
    /\ tasks[t].op = "emit_event"
    /\ tasks[t].pc = "done"
    /\ tasks[t].value = TRUE
    /\ tasks[t].payload = PayloadAccent
    /\ CallsOf(tasks[t].trace) = <<"connect", "publish", "flush">>

\* In this step a close_nats_client() of task t ends, by returning or by an
\* exception.
CloseNatsClientEnds(t) ==
  /\ tasks'[t].op = "close_nats_client"
  /\ tasks'[t].pc = "done"
  /\ tasks[t].pc # "done" \/ EntersCall(t, {"close_nats_client"})

\* The part of the singleton's life that does not depend on how close()
\* ends: get_nats_client gives None and constructs nothing when emission is
\* not enabled or nats-py is missing, and gives the singleton otherwise; a
\* client is constructed only when there is no singleton, and becomes the
\* singleton; only close_nats_client resets it; and
\* close_nats_client without a singleton returns at once and changes
\* nothing.
SingletonKept ==
  /\ \A t \in DOMAIN tasks :
       tasks'[t].op = "get_nats_client"
       => IF CanEmit
          THEN tasks'[t].value = singleton' /\ singleton' # 0
          ELSE tasks'[t].value = None
  /\ ~CanEmit => clients' = <<>> /\ singleton' = 0
  /\ Len(clients') # Len(clients)
     => /\ singleton = 0
        /\ singleton' = Len(clients')
        /\ Len(clients') = Len(clients) + 1
  /\ (singleton # 0 /\ singleton' # singleton)
     => /\ singleton' = 0
        /\ \E t \in DOMAIN tasks : CloseNatsClientEnds(t)
  /\ \A t \in DOMAIN tasks :
       (EntersCall(t, {"close_nats_client"}) /\ singleton = 0)
       => /\ tasks'[t].pc = "done"
          /\ tasks'[t].outcome = "returned"
          /\ tasks'[t].trace = <<>>
          /\ UNCHANGED <<singleton, clients, conns>>

\* close_nats_client, when it ends, has closed the singleton it found, with
\* one drain if the client held a connection, and has reset it.
SingletonReset(t) ==
  (CloseNatsClientEnds(t) /\ singleton # 0)
  => /\ singleton' = 0
     /\ ClearedAfter(singleton)
     /\ \/ tasks'[t].trace = <<>> /\ clients[singleton].nc = 0
        \/ UnsubscribesThenDrain(CallsOf(tasks'[t].trace))

\* C21: the singleton is constructed once and handed out until
\* close_nats_client resets it; get_nats_client gives None and constructs
\* nothing when emission is not enabled or nats-py is missing;
\* close_nats_client closes the singleton it finds once and resets it to
\* None, and does nothing when there is none.
C21_SingletonLifecycle ==
  [][SingletonKept /\ \A t \in DOMAIN tasks : SingletonReset(t)]_vars

\* The same without the close_nats_client calls that end with an exception,
\* which the code keeps.
SingletonLifecycleOfReturns ==
  [][/\ SingletonKept
     /\ \A t \in DOMAIN tasks :
          tasks'[t].outcome = "returned" => SingletonReset(t)]_vars

\* The connections of client c that have been opened and are neither
\* drained nor closed; one that the library is reconnecting is among them.
LiveConns(c) ==
  {i \in 1..Len(conns) :
     conns[i].client = c /\ conns[i].status \in {"open", "reconnecting"}}

\* C29: a client never has more than one underlying connection that is
\* open, i.e. opened and not drained or closed.
C29_OneOpenConnection ==
  \A c \in 1..Len(clients) : Cardinality(LiveConns(c)) <= 1

\* ------------------------------------------------------------------------
\* The tables of the report
\* ------------------------------------------------------------------------

\* The number of records of the corpus whose pre-suffix key is k, and the
\* first of them.
Occurrences(k) == Cardinality({i \in 1..Len(data) : KeyOf(i) = k})
FirstSeen(k) == CHOOSE i \in 1..Len(data) :
                  KeyOf(i) = k /\ \A j \in 1..(i - 1) : KeyOf(j) # k

TopTable == Last.report.top_rows
Listed == {TopTable[i].key : i \in 1..Len(TopTable)}
CorpusKeys == {KeyOf(i) : i \in 1..Len(data)}

\* C26: the top-colliding table has at most 15 rows, each a key of the
\* corpus with its count, which is above 1; the rows are in non-increasing
\* order of count, equal counts in first-seen order; no key left out has a
\* larger count than a listed one; without a repeated key the table is
\* empty.
C26_TopTableOrdered ==
  Completed =>
    /\ Len(TopTable) <= TopN
    /\ \A i \in 1..Len(TopTable) :
         /\ TopTable[i].key \in CorpusKeys
         /\ TopTable[i].count = Occurrences(TopTable[i].key)
         /\ TopTable[i].count > 1
    /\ \A i, j \in 1..Len(TopTable) :
         i < j =>
           \/ TopTable[i].count > TopTable[j].count
           \/ /\ TopTable[i].count = TopTable[j].count
              /\ FirstSeen(TopTable[i].key) < FirstSeen(TopTable[j].key)
    /\ \A k \in CorpusKeys \ Listed :
         \A i \in 1..Len(TopTable) : Occurrences(k) <= TopTable[i].count
    /\ (\A k \in CorpusKeys : Occurrences(k) = 1) => TopTable = <<>>

\* A completed run whose table is full, begins with a key first seen after
\* the keys below it, and leaves out a repeated key.
C26_Witness ==
  /\ Completed
  /\ Len(TopTable) = TopN
  /\ FirstSeen(TopTable[1].key) > FirstSeen(TopTable[2].key)
  /\ TopTable[1].count > TopTable[2].count
  /\ TopTable[2].count = TopTable[TopN].count
  /\ \E k \in CorpusKeys \ Listed : Occurrences(k) > 1

\* The four bands of the slug-length histogram.
Bands == <<1..10, 11..20, 21..30, 31..40>>
BandNames == <<"1-10", "11-20", "21-30", "31-40">>

\* The records of the last run whose slug has a length in band b.
InBand(b) ==
  {i \in 1..Len(data) : Len(Last.analysis.results[i].slug) \in Bands[b]}

\* C27: the slug length of every record lies in exactly one of the bands
\* 1-10, 11-20, 21-30 and 31-40, each band counts the records in it, and
\* the four counts sum to the number of records.
C27_BandsPartitionCorpus ==
  Ran =>
    /\ \A i \in 1..Len(data) :
         /\ Last.analysis.results[i].slug_length
              = Len(Last.analysis.results[i].slug)
         /\ Cardinality({b \in 1..4 : i \in InBand(b)}) = 1
    /\ Len(Last.analysis.len_dist) = 4
    /\ \A b \in 1..4 :
         /\ Last.analysis.len_dist[b].band = BandNames[b]
         /\ Last.analysis.len_dist[b].count = Cardinality(InBand(b))
    /\ Sum([b \in 1..4 |-> Last.analysis.len_dist[b].count]) = Len(data)
    /\ Completed =>
         Sum([b \in 1..4 |-> Last.report.len_rows[b].count]) = Len(data)

\* A completed run on three records whose slugs lie in three bands, the
\* longest a slug cut to the top band.
C27_Witness ==
  /\ Completed
  /\ Len(data) = 3
  /\ Cardinality(InBand(1)) = 1
  /\ Cardinality(InBand(3)) = 1
  /\ Cardinality(InBand(4)) = 1
  /\ \E i \in InBand(4) : Len(Normalise(data[i].title)) > MaxSlugLen

SampleTable == Last.report.samples

\* The records of the corpus whose slug contains none of patrol, digest
\* and mol_, and the first 20 of them.
KeywordFree ==
  {i \in 1..Len(data) :
     ~AnyIn(SampleSkipKeywords, Last.analysis.results[i].slug)}
FirstKeywordFree ==
  {i \in KeywordFree :
     Cardinality({j \in KeywordFree : j <= i}) <= MaxSamples}

\* The k-th record of a set of records, in corpus order.
Nth(indexes, k) ==
  CHOOSE i \in indexes : Cardinality({j \in indexes : j <= i}) = k

\* C28: the sample table has at most 20 rows, none with patrol, digest or
\* mol_ in its slug; its rows are records of the corpus in corpus order,
\* none twice; and it has every keyword-free record when there are at most
\* 20 of them.
C28_SampleTable ==
  Completed =>
    /\ Len(SampleTable) <= MaxSamples
    /\ \A k \in 1..Len(SampleTable) :
         ~AnyIn(SampleSkipKeywords, SampleTable[k].slug)
    /\ Len(SampleTable) = Cardinality(FirstKeywordFree)
    /\ \A k \in 1..Len(SampleTable) :
         \E r \in {Last.analysis.results[Nth(FirstKeywordFree, k)]} :
           /\ SampleTable[k].original_id = r.original_id
           /\ SampleTable[k].type_code = r.type_code
           /\ SampleTable[k].slug = r.slug
           /\ SampleTable[k].slug_length = r.slug_length
    /\ Cardinality(KeywordFree) <= MaxSamples
         => FirstKeywordFree = KeywordFree

\* A completed run whose corpus begins with a patrol record and has more
\* than 20 keyword-free records: the table is full, begins with the first
\* keyword-free record and leaves the last one out.
C28_Witness ==
  /\ Completed
  /\ 1 \notin KeywordFree
  /\ Cardinality(KeywordFree) > MaxSamples
  /\ Len(SampleTable) = MaxSamples
  /\ KeywordFree \ FirstKeywordFree # {}

\* ------------------------------------------------------------------------
\* The slug generator applied to its own result
\* ------------------------------------------------------------------------

\* C30: every slug generate_semantic_slug returns is a fixed point of it:
\* generate_semantic_slug(generate_semantic_slug(T)) =
\* generate_semantic_slug(T) for every title T.
C30_SlugIdempotent ==
  Returned => generate_semantic_slug(slug) = slug

\* A digit-led title was cut at a word boundary, so its slug differs from
\* its normalised form twice over, and the slug is returned for itself.
C30_Witness ==
  /\ Returned
  /\ Normalised # <<>> /\ Normalised[1] \in Digits
  /\ Len(Prefixed) > MaxSlugLen
  /\ LastBoundary(Prefixed) > MinBoundary
  /\ Len(slug) < MaxSlugLen
  /\ slug # Normalised
  /\ generate_semantic_slug(slug) = slug

\* ------------------------------------------------------------------------
\* discord/watcher.py: the Discord watcher
\* ------------------------------------------------------------------------

\* Line 41: save_state keeps the last 1000 ids.
StateCap == 1000

MaxEvents == 3
MaxRuns == 2

\* Message ids are the decimal strings str(message.id) (line 84).
\* a < b for two such strings, as Python compares str: by the first
\* character that differs, a proper prefix first.
DigitValue(c) == CHOOSE i \in 1..Len(DigitChars) : DigitChars[i] = c
StrLess(a, b) ==
  \E k \in 0..(Len(b) - 1) :
    /\ k <= Len(a)
    /\ \A j \in 1..k : a[j] = b[j]
    /\ \/ k = Len(a)
       \/ DigitValue(a[k + 1]) < DigitValue(b[k + 1])

\* sorted(ids)[0] for a non-empty set of ids
Smallest(ids) == CHOOSE a \in ids : \A b \in ids : ~StrLess(b, a)

\* sorted(ids)[k:]
RECURSIVE DropSmallest(_, _)
DropSmallest(ids, k) ==
  IF k <= 0 THEN ids
  ELSE DropSmallest(ids \ {Smallest(ids)}, k - 1)

\* Faulty variant of Recent: every id is kept.
RecentUncapped(ids) == ids

\* Line 41: recent = sorted(processed_ids)[-1000:].  The order of the list
\* is not kept: load_state makes a set of it.
Recent(ids) == DropSmallest(ids, Cardinality(ids) - StateCap)

\* The state file: absent, not parseable as JSON, or the JSON object
\* save_state wrote.
FileMissing == [status |-> "missing", processed_ids |-> {}]
FileUnreadable == [status |-> "unreadable", processed_ids |-> {}]
FileOf(ids) == [status |-> "json", processed_ids |-> ids]

\* Faulty variant of load_state: the file is never read.
load_state_fresh(file) == {}

\* Lines 28-35
load_state(file) ==
  IF file.status = "json" THEN file.processed_ids ELSE {}

\* Lines 42-46: what save_state leaves in the file.  "written": the dump
\* succeeded; "open failed": OSError from open(), the file is as before;
\* "write failed": OSError after open() truncated the file; "killed": the
\* process died after open() truncated the file and before the dump was
\* on disk.
SaveOutcomes == {"written", "open failed", "write failed", "killed"}
save_state(file, ids, outcome) ==
  IF outcome = "written" THEN FileOf(Recent(ids))
  ELSE IF outcome = "open failed" THEN file
  ELSE FileUnreadable

\* Faulty variant of IsRelevant: mentions are not looked at.
IsDirect(msg) == msg.is_dm

\* Line 93 with lines 90-91.
IsRelevant(msg) == msg.is_dm \/ msg.is_mention

\* Faulty variant of Forwards: processed ids are not looked up.
ForwardsReplays(ids, msg) == ~msg.from_self /\ IsRelevant(msg)

\* Lines 81-94: on_message gets past its three returns.
Forwards(ids, msg) ==
  /\ ~msg.from_self
  /\ msg.id \notin ids
  /\ IsRelevant(msg)

\* Faulty variant of Marked: the id is not added.
Unmarked(ids, msg_id) == ids

\* Line 97
Marked(ids, msg_id) == ids \cup {msg_id}

\* The ids of an earlier state file of 999 ids, and of the messages that
\* arrive: one below them all, one above them all, and one that is above
\* them as a string though below them as a number.
EarlierIds == {Decimal(k) : k \in (StateCap + 1)..(2 * StateCap - 1)}
MsgIds == {Decimal(StateCap), Decimal(2 * StateCap)}
DiscordMessages ==
  {[id |-> i, from_self |-> s, is_dm |-> d, is_mention |-> a] :
     i \in MsgIds, s \in BOOLEAN, d \in BOOLEAN, a \in BOOLEAN}

\* Messages for the runs that are stopped and started again: direct
\* messages of other users.
DirectMessages ==
  {msg \in DiscordMessages : msg.is_dm /\ ~msg.is_mention /\ ~msg.from_self}

\* The ids send_mail was called for, and the calls for one id.
MailsFor(msg_id) == {k \in 1..Len(mails) : mails[k].id = msg_id}
Mailed == {mails[k].id : k \in 1..Len(mails)}

\* The line send_mail prints last (lines 59-65); line 120 is the last one
\* printed when the process dies while gt runs.
Line ==
  [sent |-> "Sent mail", failed |-> "WARNING: gt mail send failed",
   timeout |-> "WARNING: gt mail send timed out",
   missing |-> "ERROR: gt command not found in PATH",
   killed |-> "Forwarding Discord"]

\* Lines 130-133: main() has loaded the state file left by earlier runs and
\* made the client.
WatcherInit ==
  /\ ScriptUnused
  /\ NatsUnused
  /\ state_file \in {FileMissing, FileUnreadable, FileOf(EarlierIds)}
  /\ processed_ids = load_state(state_file)
  /\ watcher_pc = "idle"
  /\ message = NoMessage
  /\ mails = <<>>
  /\ printed = "Discord watcher starting"
  /\ run = 1
  /\ events = 0
  /\ saves = "written"

\* Lines 79-97: on_message, called with a message of pool, up to line 97.
Deliver(pool) ==
  /\ watcher_pc = "idle"
  /\ events < MaxEvents
  /\ \E msg \in pool :
       /\ message' = msg
       /\ IF Forwards(processed_ids, msg)
          THEN /\ processed_ids' = Marked(processed_ids, msg.id)
               /\ watcher_pc' = "marked"
          ELSE UNCHANGED <<processed_ids, watcher_pc>>
  /\ events' = events + 1
  /\ UNCHANGED <<scriptVars, natsVars, state_file, mails, printed, run,
                 saves>>

OnMessage == Deliver(DiscordMessages)
OnDirectMessage == Deliver(DirectMessages)

\* Line 98
SaveState ==
  /\ watcher_pc = "marked"
  /\ \E outcome \in SaveOutcomes :
       /\ state_file' = save_state(state_file, processed_ids, outcome)
       /\ watcher_pc' = IF outcome = "killed" THEN "crashed" ELSE "saved"
       /\ printed' = IF outcome \in {"open failed", "write failed"}
                     THEN "WARNING: failed to save state"
                     ELSE printed
       /\ saves' = IF outcome # "written" THEN "failed"
                   ELSE IF Cardinality(processed_ids) > StateCap
                             /\ saves = "written"
                        THEN "capped"
                        ELSE saves
  /\ UNCHANGED <<scriptVars, natsVars, processed_ids, message, mails, run,
                 events>>

\* Lines 101-121
SendMail ==
  /\ watcher_pc = "saved"
  /\ \E outcome \in DOMAIN Line :
       /\ mails' = Append(mails, [id |-> message.id, run |-> run,
                                  returned |-> outcome # "killed"])
       /\ printed' = Line[outcome]
       /\ watcher_pc' = IF outcome = "killed" THEN "crashed" ELSE "idle"
  /\ UNCHANGED <<scriptVars, natsVars, processed_ids, state_file, message,
                 run, events, saves>>

\* The watcher is stopped outside on_message (lines 138-151), or the
\* process dies between two lines of on_message.
Stop ==
  /\ watcher_pc \in {"idle", "marked", "saved"}
  /\ watcher_pc' = IF watcher_pc = "idle" THEN "down" ELSE "crashed"
  /\ UNCHANGED <<scriptVars, natsVars, processed_ids, state_file, message,
                 mails, printed, run, events, saves>>

\* Lines 130-133 of the next run.
Start ==
  /\ watcher_pc \in {"down", "crashed"}
  /\ run < MaxRuns
  /\ run' = run + 1
  /\ processed_ids' = load_state(state_file)
  /\ printed' = "Discord watcher starting"
  /\ watcher_pc' = "idle"
  /\ UNCHANGED <<scriptVars, natsVars, state_file, message, mails, events,
                 saves>>

WatcherNext == OnMessage \/ SaveState \/ SendMail
RestartNext == OnDirectMessage \/ SaveState \/ SendMail \/ Stop \/ Start

\* One run of the watcher, and runs that are stopped and started again.
SpecWatcher == WatcherInit /\ [][WatcherNext]_vars
SpecRestart == WatcherInit /\ [][RestartNext]_vars

\* ------------------------------------------------------------------------
\* Claims about the Discord watcher
\* ------------------------------------------------------------------------

\* The calls of send_mail for one id in one run of the watcher.
MailsInRun(msg_id, r) ==
  {k \in 1..Len(mails) : mails[k].id = msg_id /\ mails[k].run = r}

\* C22: within one run of the watcher send_mail is called at most once for
\* each message id, whatever messages on_message is called with, replays
\* of a forwarded message included.
C22_OneMailPerIdInRun ==
  \A msg_id \in MsgIds : \A r \in 1..run :
    Cardinality(MailsInRun(msg_id, r)) <= 1

\* A direct message of another user was forwarded and then delivered
\* again: on_message has returned and there is still one mail.
C22_Witness ==
  /\ watcher_pc = "idle"
  /\ events = 2
  /\ Len(mails) = 1
  /\ message.id = mails[1].id
  /\ message.is_dm /\ ~message.from_self

\* The message on_message is called with in a step, and whether lines
\* 81-94 let it through.
Called == events' = events + 1
Passes ==
  /\ ~message'.from_self
  /\ message'.id \notin processed_ids
  /\ message'.is_dm \/ message'.is_mention

\* C25: on_message forwards a message exactly when it is not the bot's
\* own, its id is not processed and it is a direct message or mentions the
\* bot: it then marks the id, saves the state and calls send_mail for it.
\* Otherwise it calls nothing and leaves the processed set, the state file
\* and the mails as they are.
C25_ForwardsExactlyWhen ==
  [][/\ Called =>
          IF Passes
          THEN /\ watcher_pc' = "marked"
               /\ processed_ids' = processed_ids \cup {message'.id}
          ELSE /\ watcher_pc' = "idle"
               /\ UNCHANGED <<processed_ids, state_file, mails>>
     /\ watcher_pc = "marked" => watcher_pc' \in {"saved", "crashed"}
     /\ watcher_pc = "saved" =>
          /\ watcher_pc' \in {"idle", "crashed"}
          /\ Len(mails') = Len(mails) + 1
          /\ mails'[Len(mails')].id = message.id
     /\ mails' # mails => watcher_pc = "saved"
     /\ state_file' # state_file => watcher_pc = "marked"]_vars

\* A mention outside a direct message has been forwarded, a message that
\* is neither has not.
C25_Witness ==
  /\ watcher_pc = "idle"
  /\ events = 2
  /\ Len(mails) = 1
  /\ \E msg \in DiscordMessages :
       /\ msg.id = mails[1].id /\ msg.is_mention /\ ~msg.is_dm
       /\ msg.id \in processed_ids
  /\ ~message.is_dm /\ ~message.is_mention /\ ~message.from_self
  /\ message.id \notin processed_ids

\* The ids mailed in a run before the present one.
MailedEarlier ==
  {mails[k].id : k \in {j \in 1..Len(mails) : mails[j].run < run}}
Running == watcher_pc \in {"idle", "marked", "saved"}

\* An id mailed in an earlier run is in the processed set of this run and
\* has been mailed once.
KeptAcrossRestart ==
  \A msg_id \in MailedEarlier :
    /\ Running => msg_id \in processed_ids
    /\ Cardinality(MailsFor(msg_id)) = 1

KeptWhileSavesSucceed == saves # "failed" => KeptAcrossRestart

Mails == mails' # mails

\* The id was marked and save_state attempted before send_mail is called.
MarkedAndSavedFirst ==
  Mails => /\ watcher_pc = "saved"
           /\ message.id \in processed_ids
           /\ mails' = Append(mails, mails'[Len(mails')])
           /\ mails'[Len(mails')].id = message.id

\* However send_mail ends, the id stays marked and on_message is over; the
\* id has one call of send_mail in this run.
NeitherUnmarkedNorRetried ==
  Mails => /\ processed_ids' = processed_ids
           /\ message.id \in processed_ids'
           /\ watcher_pc' \in {"idle", "crashed"}
           /\ Cardinality({k \in 1..Len(mails') :
                             /\ mails'[k].id = message.id
                             /\ mails'[k].run = run}) = 1

\* No message is mailed again after the process died in on_message with
\* send_mail called for it.
NotMailedAgainAfterCrash ==
  Mails => \A k \in MailsFor(message.id) : mails[k].returned

====
